---------------------------- MODULE Spec2Model ----------------------------
(***************************************************************************)
(* The OT reconciler of ethersync (src/rust/src/ot.rs): the Op <->          *)
(* OperationSeq conversions, transform_through_operations and the OTServer  *)
(* state machine, together with the parts of the operational-transform     *)
(* crate (OperationSeq: retain, insert, delete, compose, transform, apply)  *)
(* that ot.rs calls; and the daemon (src/daemon/src): the Document Actor   *)
(* of daemon.rs with its CRDT replica, file and change-ping broadcast, and *)
(* the tasks of a peer connection of peer.rs.                              *)
(*                                                                         *)
(* A text is a sequence of characters; a character is a one-letter string. *)
(* Positions and lengths count characters, except where the source uses    *)
(* String::len(), which counts bytes (ByteLen).                            *)
(*                                                                         *)
(* The loops of the source are RECURSIVE operators.  Each binds its         *)
(* arguments to their values first (CHOOSE r \in {body : x \in {arg}}),     *)
(* so that an argument is evaluated once per round and not once per use.   *)
(***************************************************************************)
EXTENDS Integers, Sequences, FiniteSets, TLC

VARIABLES
    \* OTServer (ot.rs:200-218)
    editor_revision, daemon_revision, operations, editor_queue, document,
    \* the panic that ended the reconciler's thread, "none" while it runs
    panicked,
    \* history: the last call made on the OTServer, with its pre-state
    last,
    \* history: the daemon revision the editor reported last, and whether
    \* every report so far was one an editor can make
    reported,
    \* transform_through_operations as a pure function: its inputs and output
    base_text, their_operation, my_operations, transformed,
    \* Daemon::new (daemon.rs:501-525): per daemon "host", "joiner" or "off"
    role,
    \* DocumentActor (daemon.rs:169-178), per daemon: the CRDT replica, the
    \* OT reconciler (if any), the ids of the editor handles registered,
    \* the content of the file at file_path, the messages waiting in
    \* doc_message_rx, and where the actor task stands
    crdt_doc, ot_server, editor_clients, file, doc_message_rx, actor,
    \* history: per daemon, the local changes made, and the messages sent
    \* through its DocumentActorHandle from outside the peer connections
    next_change, injected,
    \* per peer connection: the daemon it belongs to ("none": not opened),
    \* its DocChangedReceiver (peer.rs:203), and the oneshot reply of the
    \* request its Sync task has made (peer.rs:134, 149)
    conn_daemon, doc_changed_ping_rx, response,
    \* per peer connection: the connection its TCP stream leads to (0: a
    \* peer that is not modelled), the frames on their way to its reader,
    \* its CancellationToken, the tasks spawned for it (peer.rs:199, 207,
    \* 277, 281) and the two queues between them (peer.rs:191, 270)
    link, tcp, shutdown_token, reader, sync_actor, pump, writer,
    syncer_message_rx, automerge_message_rx,
    \* per peer connection: the frames a peer that is not modelled has sent
    remote_sent,
    \* the framing of peer.rs as a function of bytes: the payloads given to
    \* a writer, those it has yet to write, where it stands in a frame, the
    \* bytes written and not yet read, and what read_message has returned
    wire_payloads, wire_queue, wire_writer, wire_stream, wire_read,
    \* Document::apply_delta_to_doc as a pure function: the text, the editor
    \* delta, and the text after the delta
    ed_text, ed_delta, ed_result

otVars == <<editor_revision, daemon_revision, operations, editor_queue, document,
            panicked, last, reported>>
ttVars == <<base_text, their_operation, my_operations, transformed>>
actorVars == <<role, crdt_doc, ot_server, editor_clients, file, doc_message_rx, actor,
               next_change, injected>>
peerVars == <<conn_daemon, doc_changed_ping_rx, response>>
connVars == <<link, tcp, shutdown_token, reader, sync_actor, pump, writer,
              syncer_message_rx, automerge_message_rx, remote_sent>>
wireVars == <<wire_payloads, wire_queue, wire_writer, wire_stream, wire_read>>
edVars == <<ed_text, ed_delta, ed_result>>
\* what no daemon touches
libVars == <<otVars, ttVars, wireVars, edVars>>
vars == <<editor_revision, daemon_revision, operations, editor_queue, document,
          panicked, last, reported,
          base_text, their_operation, my_operations, transformed,
          role, crdt_doc, ot_server, editor_clients, file, doc_message_rx, actor,
          next_change, injected, conn_daemon, doc_changed_ping_rx, response,
          link, tcp, shutdown_token, reader, sync_actor, pump, writer,
          syncer_message_rx, automerge_message_rx, remote_sent,
          wire_payloads, wire_queue, wire_writer, wire_stream, wire_read,
          ed_text, ed_delta, ed_result>>

----------------------------------------------------------------------------
(* Bounds of the model. *)

\* OTServer: calls of apply_crdt_change / accepted editor operations explored
MaxDaemonRev == 2
MaxEditorRev == 2
\* OTServer: length of the initial document (new_with_doc)
MaxInitLen == 2
\* transform_through_operations: length of the base text and of the queue
MaxBaseLen == 4
MaxQueue == 2
\* largest column an op handed to the OTServer names
MaxPos == 2
\* DocumentActor: messages sent to one actor from outside the peer
\* connections, local changes one daemon makes
MaxInjected == 5
MaxChanges == 2

----------------------------------------------------------------------------
(* The daemons and their peer connections; the values their state starts   *)
(* with.                                                                   *)

Daemons == {"A", "B"}
Conns == {1, 2}

\* automerge::sync::State::new() (peer.rs:127), also what mem::take leaves
\* behind (peer.rs:140, 152).  A set of changes stands for the heads that
\* name it.
SyncStateNew ==
    [their_known |-> FALSE, their_heads |-> {}, sent_hashes |-> {},
     last_sent_heads |-> {}, in_flight |-> FALSE, have_responded |-> FALSE]

\* an AutomergeSyncMessage: the sender's heads and the changes it ships
SyncMessage(heads, changes) == [heads |-> heads, changes |-> changes]

NoSyncMessage == SyncMessage({}, {})

\* enum DocMessage (daemon.rs:20-39); conn stands for the response_tx of
\* the two sync requests: the connection whose Sync task awaits the reply
DocMessage(kind, delta, message, state, conn) ==
    [kind |-> kind, delta |-> delta, message |-> message, state |-> state,
     conn |-> conn]

NoMessage == DocMessage("none", <<>>, NoSyncMessage, SyncStateNew, 0)

\* a oneshot channel nothing was sent on
NoResponse == [sent |-> FALSE, state |-> SyncStateNew, some |-> FALSE,
               message |-> NoSyncMessage]

\* struct RevisionedEditorTextDelta { revision, delta }: what
\* DocMessage::RevDelta carries (daemon.rs:27) and what editors are sent
\* (daemon.rs:362-366)
RevisionedDelta(revision, delta) == [revision |-> revision, delta |-> delta]

\* ot_server: Option<OTServer> (daemon.rs:175): None, and the reconciler
\* OTServer::new returns (daemon.rs:206)
NoOTServer ==
    [some |-> FALSE, daemon_revision |-> 0, editor_revision |-> 0,
     editor_queue |-> <<>>]
OTServerNew ==
    [some |-> TRUE, daemon_revision |-> 0, editor_revision |-> 0,
     editor_queue |-> <<>>]

\* The actor task before run() has received anything.  pings, committed
\* and advanced are history of the message in hand: the change-pings sent,
\* whether its mutation was applied, whether the replica changed.  deltas
\* are the deltas handle_message holds for the reconciler or the editors
\* once the replica is mutated, sent the messages it has sent to every
\* registered editor handle.
ActorNew ==
    [pc |-> "recv", message |-> NoMessage, pings |-> 0, committed |-> FALSE,
     advanced |-> FALSE, panic |-> "none", deltas |-> <<>>, sent |-> <<>>]

\* enum SyncerMessage (peer.rs:16-19)
SyncerMessage(kind, message) == [kind |-> kind, message |-> message]

\* a SyncActor that is not spawned; asked_at and round_trip are history:
\* the size of the replica when the request in flight was sent, and when
\* the last GenerateSyncMessage request that got its reply was sent
SyncActorOff ==
    [pc |-> "off", peer_state |-> SyncStateNew,
     message |-> SyncerMessage("none", NoSyncMessage),
     asked_at |-> 0, round_trip |-> -1]

\* a TCPReadActor that is not spawned
ReaderOff == [pc |-> "off", frame |-> NoSyncMessage]

\* no peer connection is opened
IdleConns ==
    /\ link = [c \in Conns |-> 0]
    /\ tcp = [c \in Conns |-> <<>>]
    /\ shutdown_token = [c \in Conns |-> FALSE]
    /\ reader = [c \in Conns |-> ReaderOff]
    /\ sync_actor = [c \in Conns |-> SyncActorOff]
    /\ pump = [c \in Conns |-> "off"]
    /\ writer = [c \in Conns |-> "off"]
    /\ syncer_message_rx = [c \in Conns |-> <<>>]
    /\ automerge_message_rx = [c \in Conns |-> <<>>]
    /\ remote_sent = [c \in Conns |-> 0]

\* no frame is written or read
IdleWire ==
    /\ wire_payloads = <<>>
    /\ wire_queue = <<>>
    /\ wire_writer = "off"
    /\ wire_stream = <<>>
    /\ wire_read = [status |-> "off", payloads |-> <<>>]

\* no delta is applied as a pure function
IdleEd ==
    /\ ed_text = <<>>
    /\ ed_delta = <<>>
    /\ ed_result = [called |-> FALSE]

\* No daemon runs under Spec and SpecTransform
IdleDaemons ==
    /\ role = [d \in Daemons |-> "off"]
    /\ crdt_doc = [d \in Daemons |-> {}]
    /\ ot_server = [d \in Daemons |-> NoOTServer]
    /\ editor_clients = [d \in Daemons |-> {}]
    /\ file = [d \in Daemons |-> <<>>]
    /\ doc_message_rx = [d \in Daemons |-> <<>>]
    /\ actor = [d \in Daemons |-> ActorNew]
    /\ next_change = [d \in Daemons |-> 0]
    /\ injected = [d \in Daemons |-> 0]
    /\ conn_daemon = [c \in Conns |-> "none"]
    /\ doc_changed_ping_rx = [c \in Conns |-> "none"]
    /\ response = [c \in Conns |-> NoResponse]
    /\ IdleConns

----------------------------------------------------------------------------
(* Texts. *)

\* The characters of initial documents: pairwise distinct, so that two edit
\* scripts give the same text only if they keep the same characters.
BaseText == <<"a", "b", "c", "d", "e">>

Prefix(n) == SubSeq(BaseText, 1, n)

\* Bytes of a character in UTF-8: "u" stands for a two-byte character
\* (such as U+00FC), every other character of the model is ASCII.
CharBytes(c) == IF c = "u" THEN 2 ELSE 1

RECURSIVE ByteLen(_)
\* String::len()
ByteLen(s) == IF s = <<>> THEN 0 ELSE CharBytes(Head(s)) + ByteLen(Tail(s))

\* num_chars / chars().count()
NumChars(s) == Len(s)

Min(a, b) == IF a < b THEN a ELSE b

----------------------------------------------------------------------------
(* operational_transform::OperationSeq, as called from ot.rs.               *)
(* An OperationSeq is [ops, base_len, target_len]; an operation is          *)
(* [t |-> "Retain", n], [t |-> "Delete", n] or [t |-> "Insert", s].         *)

OTRetain(n) == [t |-> "Retain", n |-> n]
OTDelete(n) == [t |-> "Delete", n |-> n]
OTInsert(s) == [t |-> "Insert", s |-> s]

\* OperationSeq::default()
OpSeqDefault == [ops |-> <<>>, base_len |-> 0, target_len |-> 0]

Ok(v) == [ok |-> TRUE, val |-> v]
Err(why) == [ok |-> FALSE, why |-> why]

LastOp(seq) == seq.ops[Len(seq.ops)]
ButLast(s) == SubSeq(s, 1, Len(s) - 1)

\* OperationSeq::retain
SeqRetain(seq, n) ==
    IF n = 0 THEN seq
    ELSE [ops |-> IF seq.ops # <<>> /\ LastOp(seq).t = "Retain"
                  THEN Append(ButLast(seq.ops), OTRetain(LastOp(seq).n + n))
                  ELSE Append(seq.ops, OTRetain(n)),
          base_len |-> seq.base_len + n,
          target_len |-> seq.target_len + n]

\* OperationSeq::delete
SeqDelete(seq, n) ==
    IF n = 0 THEN seq
    ELSE [ops |-> IF seq.ops # <<>> /\ LastOp(seq).t = "Delete"
                  THEN Append(ButLast(seq.ops), OTDelete(LastOp(seq).n + n))
                  ELSE Append(seq.ops, OTDelete(n)),
          base_len |-> seq.base_len + n,
          target_len |-> seq.target_len]

\* OperationSeq::insert: an insert joins a preceding insert, and is put before
\* a trailing delete.
SeqInsert(seq, s) ==
    IF s = <<>> THEN seq
    ELSE LET o == seq.ops
             n == Len(o)
             newops ==
                 IF n >= 1 /\ o[n].t = "Insert"
                 THEN Append(ButLast(o), OTInsert(o[n].s \o s))
                 ELSE IF n >= 2 /\ o[n].t = "Delete" /\ o[n-1].t = "Insert"
                 THEN [o EXCEPT ![n-1] = OTInsert(o[n-1].s \o s)]
                 ELSE IF n >= 1 /\ o[n].t = "Delete"
                 THEN Append(Append(ButLast(o), OTInsert(s)), o[n])
                 ELSE Append(o, OTInsert(s))
         IN [ops |-> newops,
             base_len |-> seq.base_len,
             target_len |-> seq.target_len + NumChars(s)]

RECURSIVE ComposeLoop(_, _, _)
\* The loop of OperationSeq::compose; ops1 and ops2 start with maybe_op1 and
\* maybe_op2.
ComposeLoop(arg1, arg2, arg3) ==
    CHOOSE r \in {
    IF ops1 = <<>> /\ ops2 = <<>> THEN Ok(new)
    ELSE IF ops1 # <<>> /\ Head(ops1).t = "Delete"
    THEN ComposeLoop(Tail(ops1), ops2, SeqDelete(new, Head(ops1).n))
    ELSE IF ops2 # <<>> /\ Head(ops2).t = "Insert"
    THEN ComposeLoop(ops1, Tail(ops2), SeqInsert(new, Head(ops2).s))
    ELSE IF ops1 = <<>> \/ ops2 = <<>> THEN Err("IncompatibleLengths")
    ELSE LET a == Head(ops1)
             b == Head(ops2)
             i == IF a.t = "Insert" THEN NumChars(a.s) ELSE a.n
             j == b.n
             m == Min(i, j)
             \* what is left of the longer operation
             rest1 == IF i > j
                      THEN <<IF a.t = "Insert"
                             THEN OTInsert(SubSeq(a.s, j + 1, Len(a.s)))
                             ELSE OTRetain(i - j)>> \o Tail(ops1)
                      ELSE Tail(ops1)
             rest2 == IF i < j
                      THEN <<[b EXCEPT !.n = j - i]>> \o Tail(ops2)
                      ELSE Tail(ops2)
             out == IF a.t = "Retain" /\ b.t = "Retain" THEN SeqRetain(new, m)
                    ELSE IF a.t = "Insert" /\ b.t = "Delete" THEN new
                    ELSE IF a.t = "Insert" /\ b.t = "Retain"
                    THEN SeqInsert(new, SubSeq(a.s, 1, m))
                    ELSE SeqDelete(new, m)   \* Retain, Delete
         IN ComposeLoop(rest1, rest2, out)
    : ops1 \in {arg1}, ops2 \in {arg2}, new \in {arg3}} : TRUE

\* OperationSeq::compose
Compose(a, b) ==
    IF a.target_len # b.base_len THEN Err("IncompatibleLengths")
    ELSE ComposeLoop(a.ops, b.ops, OpSeqDefault)

RECURSIVE TransformLoop(_, _, _, _)
\* The loop of OperationSeq::transform: a_prime follows `other`, b_prime
\* follows `self`; an insert of `self` is taken before an insert of `other`.
TransformLoop(arg1, arg2, arg3, arg4) ==
    CHOOSE r \in {
    IF ops1 = <<>> /\ ops2 = <<>> THEN Ok(<<ap, bp>>)
    ELSE IF ops1 # <<>> /\ Head(ops1).t = "Insert"
    THEN TransformLoop(Tail(ops1), ops2,
                       SeqInsert(ap, Head(ops1).s),
                       SeqRetain(bp, NumChars(Head(ops1).s)))
    ELSE IF ops2 # <<>> /\ Head(ops2).t = "Insert"
    THEN TransformLoop(ops1, Tail(ops2),
                       SeqRetain(ap, NumChars(Head(ops2).s)),
                       SeqInsert(bp, Head(ops2).s))
    ELSE IF ops1 = <<>> \/ ops2 = <<>> THEN Err("IncompatibleLengths")
    ELSE LET a == Head(ops1)
             b == Head(ops2)
             i == a.n
             j == b.n
             m == Min(i, j)
             rest1 == IF i > j THEN <<[a EXCEPT !.n = i - j]>> \o Tail(ops1)
                      ELSE Tail(ops1)
             rest2 == IF i < j THEN <<[b EXCEPT !.n = j - i]>> \o Tail(ops2)
                      ELSE Tail(ops2)
             ap2 == IF a.t = "Retain" /\ b.t = "Retain" THEN SeqRetain(ap, m)
                    ELSE IF a.t = "Delete" /\ b.t = "Retain" THEN SeqDelete(ap, m)
                    ELSE ap
             bp2 == IF a.t = "Retain" /\ b.t = "Retain" THEN SeqRetain(bp, m)
                    ELSE IF a.t = "Retain" /\ b.t = "Delete" THEN SeqDelete(bp, m)
                    ELSE bp
         IN TransformLoop(rest1, rest2, ap2, bp2)
    : ops1 \in {arg1}, ops2 \in {arg2}, ap \in {arg3}, bp \in {arg4}} : TRUE

\* OperationSeq::transform: self.transform(other) = (a_prime, b_prime)
Transform(self, other) ==
    IF self.base_len # other.base_len THEN Err("IncompatibleLengths")
    ELSE TransformLoop(self.ops, other.ops, OpSeqDefault, OpSeqDefault)

RECURSIVE ApplyLoop(_, _, _)
ApplyLoop(arg1, arg2, arg3) ==
    CHOOSE r \in {
    IF ops = <<>> THEN new_s
    ELSE LET o == Head(ops) IN
         IF o.t = "Retain"
         THEN ApplyLoop(Tail(ops), SubSeq(chars, Min(o.n, Len(chars)) + 1, Len(chars)),
                        new_s \o SubSeq(chars, 1, Min(o.n, Len(chars))))
         ELSE IF o.t = "Delete"
         THEN ApplyLoop(Tail(ops), SubSeq(chars, Min(o.n, Len(chars)) + 1, Len(chars)),
                        new_s)
         ELSE ApplyLoop(Tail(ops), chars, new_s \o o.s)
    : ops \in {arg1}, chars \in {arg2}, new_s \in {arg3}} : TRUE

\* OperationSeq::apply
Apply(seq, s) ==
    IF NumChars(s) # seq.base_len THEN Err("IncompatibleLengths")
    ELSE Ok(ApplyLoop(seq.ops, s, <<>>))

----------------------------------------------------------------------------
(* Op, OpElement, Range, Position (ot.rs:19-51). *)

Pos(l, c) == [line |-> l, column |-> c]

\* Range::empty
RangeEmpty(r) == r.anchor = r.head

\* Range::forward
RangeForward(r) ==
    \/ r.anchor.line < r.head.line
    \/ r.anchor.line = r.head.line /\ r.anchor.column <= r.head.column

OpElement(a, h, s) == [range |-> [anchor |-> Pos(0, a), head |-> Pos(0, h)],
                       replacement |-> s]

\* tests::dummy_insert, with the replacement as a parameter
InsertOp(at, s) == [v |-> <<OpElement(at, at, s)>>]

\* tests::dummy_delete
DeleteOp(from, to) == [v |-> <<OpElement(from, to, <<>>)>>]

\* Op::len
OpLen(op) == Len(op.v)

RECURSIVE OpFromLoop(_, _, _)
\* The loop of Op::from: a Retain and an Insert advance the position, the
\* Insert by the replacement's length in bytes; a Delete does not.
OpFromLoop(arg1, arg2, arg3) ==
    CHOOSE r \in {
    IF ops = <<>> THEN v
    ELSE LET o == Head(ops) IN
         IF o.t = "Retain" THEN OpFromLoop(Tail(ops), position + o.n, v)
         ELSE IF o.t = "Delete"
         THEN OpFromLoop(Tail(ops), position,
                         Append(v, OpElement(position, position + o.n, <<>>)))
         ELSE OpFromLoop(Tail(ops), position + ByteLen(o.s),
                         Append(v, OpElement(position, position, o.s)))
    : ops \in {arg1}, position \in {arg2}, v \in {arg3}} : TRUE

RECURSIVE OpFromLoopDeleteAdvances(_, _, _)
OpFromLoopDeleteAdvances(arg1, arg2, arg3) ==
    CHOOSE r \in {
    IF ops = <<>> THEN v
    ELSE LET o == Head(ops) IN
         IF o.t = "Retain" THEN OpFromLoopDeleteAdvances(Tail(ops), position + o.n, v)
         ELSE IF o.t = "Delete"
         THEN OpFromLoopDeleteAdvances(Tail(ops), position + o.n,
                         Append(v, OpElement(position, position + o.n, <<>>)))
         ELSE OpFromLoopDeleteAdvances(Tail(ops), position + ByteLen(o.s),
                         Append(v, OpElement(position, position, o.s)))
    : ops \in {arg1}, position \in {arg2}, v \in {arg3}} : TRUE

\* Op::from, had it advanced the position past a deleted range too
OpFromDeleteAdvances(opseq) == [v |-> OpFromLoopDeleteAdvances(opseq.ops, 0, <<>>)]

\* Op::from
OpFrom(opseq) == [v |-> OpFromLoop(opseq.ops, 0, <<>>)]

\* The OperationSeq of one OpElement in Op::to_ot (opseq_sub); a panic where
\* the source asserts or has todo!().
ElementToOt(e) ==
    IF e.range.anchor.line # 0 THEN Err("TODO: support lines.")
    ELSE IF e.replacement # <<>>
    THEN IF RangeEmpty(e.range)
         THEN Ok(SeqInsert(SeqRetain(OpSeqDefault, e.range.anchor.column),
                           e.replacement))
         ELSE Err("not yet implemented")
    ELSE IF ~RangeEmpty(e.range)
    THEN LET from == IF RangeForward(e.range) THEN e.range.anchor.column
                     ELSE e.range.head.column
             to == IF RangeForward(e.range) THEN e.range.head.column
                   ELSE e.range.anchor.column
         IN IF to < from THEN Err("attempt to subtract with overflow")
            ELSE Ok(SeqDelete(SeqRetain(OpSeqDefault, from), to - from))
    ELSE Ok(OpSeqDefault)

RECURSIVE ToOtLoop(_, _)
ToOtLoop(arg1, arg2) ==
    CHOOSE r \in {
    IF v = <<>> THEN Ok(opseq)
    ELSE IF ~sub.ok THEN sub
         ELSE LET padded == IF opseq.target_len < sub.val.base_len
                            THEN SeqRetain(opseq, sub.val.base_len - opseq.target_len)
                            ELSE opseq
                  composed == Compose(padded, sub.val)
              IN IF ~composed.ok THEN Err("compose: unwrap on Err")
                 ELSE ToOtLoop(Tail(v), composed.val)
    : v \in {arg1}, opseq \in {arg2},
      sub \in {IF arg1 = <<>> THEN Ok(OpSeqDefault) ELSE ElementToOt(Head(arg1))}}
    : TRUE

\* Op::to_ot
ToOt(op) == ToOtLoop(op.v, OpSeqDefault)

\* The round without the alignment of the base lengths
TransformPairUnaligned(my_opseq, their_opseq) == Transform(my_opseq, their_opseq)

\* The round with the two operations in the other order:
\* their_opseq.transform(&my_opseq)
TransformPairSwapped(my_opseq, their_opseq) ==
    LET my == IF my_opseq.base_len < their_opseq.base_len
              THEN SeqRetain(my_opseq, their_opseq.base_len - my_opseq.base_len)
              ELSE my_opseq
        their == IF my_opseq.base_len < their_opseq.base_len
                 THEN their_opseq
                 ELSE SeqRetain(their_opseq, my_opseq.base_len - their_opseq.base_len)
        r == Transform(their, my)
    IN IF r.ok THEN Ok(<<r.val[2], r.val[1]>>) ELSE r

\* One round of the loop of transform_through_operations: the base lengths
\* are aligned by a trailing retain, then my_opseq.transform(&their_opseq).
TransformPair(my_opseq, their_opseq) ==
    LET my == IF my_opseq.base_len < their_opseq.base_len
              THEN SeqRetain(my_opseq, their_opseq.base_len - my_opseq.base_len)
              ELSE my_opseq
        their == IF my_opseq.base_len < their_opseq.base_len
                 THEN their_opseq
                 ELSE SeqRetain(their_opseq, my_opseq.base_len - their_opseq.base_len)
    IN Transform(my, their)

RECURSIVE TransformThroughLoop(_, _, _)
TransformThroughLoop(arg1, arg2, arg3) ==
    CHOOSE r \in {
    IF mine = <<>> THEN Ok([their |-> their, mine |-> transformed_mine])
    ELSE IF OpLen(Head(mine)) # 1
    THEN Err("TODO: support operations that have more than one range")
    ELSE IF ~my_opseq.ok THEN my_opseq
    ELSE IF ~their_opseq.ok THEN their_opseq
    ELSE LET primes == TransformPair(my_opseq.val, their_opseq.val) IN
         IF ~primes.ok THEN Err("transform: unwrap on Err")
         ELSE TransformThroughLoop(OpFrom(primes.val[2]), Tail(mine),
                                   Append(transformed_mine, OpFrom(primes.val[1])))
    : their \in {arg1}, mine \in {arg2}, transformed_mine \in {arg3},
      my_opseq \in {IF arg2 = <<>> THEN Ok(OpSeqDefault) ELSE ToOt(Head(arg2))},
      their_opseq \in {ToOt(arg1)}}
    : TRUE

\* Op::transform_through_operations: Ok([their, mine]) or the panic
transform_through_operations(their, mine) ==
    TransformThroughLoop(their, mine, <<>>)

----------------------------------------------------------------------------
(* OTServer (ot.rs:199-354). *)

NoPanic == "none"

\* OTServer::apply_change_to_document: the new document, or the panic of an
\* unwrap. The padding compares a length in characters (base_len) with
\* String::len(), a length in bytes.
apply_change_to_document(doc, op) ==
    CHOOSE r \in {
    IF ~ot_op.ok THEN ot_op
    ELSE LET padded == IF ot_op.val.base_len < ByteLen(doc)
                       THEN SeqRetain(ot_op.val, ByteLen(doc) - ot_op.val.base_len)
                       ELSE ot_op.val
             applied == Apply(padded, doc)
         IN IF applied.ok THEN applied ELSE Err("apply: unwrap on Err")
    : ot_op \in {ToOt(op)}} : TRUE

\* What a call that reaches apply_change_to_document leaves in `document`
\* and `panicked`
DocumentAfter(op) ==
    \E r \in {apply_change_to_document(document, op)} :
        /\ document' = IF r.ok THEN r.val ELSE document
        /\ panicked' = IF r.ok THEN NoPanic ELSE r.why

\* The OTServer's fields, as `last` keeps them
Fields == [editor_revision |-> editor_revision,
           daemon_revision |-> daemon_revision,
           operations |-> operations,
           editor_queue |-> editor_queue,
           document |-> document]

\* A call: `returned` is what the caller gets back, both functions return ()
Call(name, rev, op, branch) ==
    [call |-> name, rev |-> rev, op |-> op, branch |-> branch,
     returned |-> "()", pre |-> Fields]

\* apply_crdt_change, had it not queued the op
apply_crdt_change_unqueued(op) ==
    /\ operations' = Append(operations, op)
    /\ daemon_revision' = daemon_revision + 1
    /\ DocumentAfter(op)
    /\ UNCHANGED <<editor_revision, editor_queue>>

\* apply_crdt_change, had it not counted the op
apply_crdt_change_uncounted(op) ==
    /\ operations' = Append(operations, op)
    /\ editor_queue' = Append(editor_queue, op)
    /\ DocumentAfter(op)
    /\ UNCHANGED <<editor_revision, daemon_revision>>

\* OTServer::apply_crdt_change
apply_crdt_change(op) ==
    /\ operations' = Append(operations, op)
    /\ editor_queue' = Append(editor_queue, op)
    /\ daemon_revision' = daemon_revision + 1
    /\ DocumentAfter(op)
    /\ UNCHANGED editor_revision

\* add_editor_operation, had it not counted the op
add_editor_operation_uncounted(op) ==
    /\ operations' = Append(operations, op)
    /\ UNCHANGED editor_revision
    /\ DocumentAfter(op)

\* OTServer::add_editor_operation
add_editor_operation(op) ==
    /\ operations' = Append(operations, op)
    /\ editor_revision' = editor_revision + 1
    /\ DocumentAfter(op)

\* a slice that starts one entry too late
UnseenOperationsButOne(queue, daemon_operations_to_transform) ==
    SubSeq(queue, Len(queue) - daemon_operations_to_transform + 2, Len(queue))

\* The slice editor_queue[seen_operations..] of apply_editor_operation
UnseenOperations(queue, daemon_operations_to_transform) ==
    SubSeq(queue, Len(queue) - daemon_operations_to_transform + 1, Len(queue))

\* an apply_editor_operation that takes every revision for the current one
apply_editor_operation_unchecked(rev, op) ==
    /\ last' = Call("apply_editor_operation", rev, op,
                    IF rev > daemon_revision THEN "future" ELSE "current")
    /\ add_editor_operation(op)
    /\ UNCHANGED <<daemon_revision, editor_queue>>

\* OTServer::apply_editor_operation
apply_editor_operation(rev, op) ==
    IF rev > daemon_revision
    THEN \* must not happen: nothing is done, the call returns
         /\ last' = Call("apply_editor_operation", rev, op, "future")
         /\ UNCHANGED <<editor_revision, daemon_revision, operations,
                        editor_queue, document, panicked>>
    ELSE IF rev = daemon_revision
    THEN /\ last' = Call("apply_editor_operation", rev, op, "current")
         /\ add_editor_operation(op)
         /\ UNCHANGED <<daemon_revision, editor_queue>>
    ELSE LET daemon_operations_to_transform == daemon_revision - rev IN
         /\ last' = Call("apply_editor_operation", rev, op, "older")
         /\ UNCHANGED daemon_revision
         /\ IF Len(editor_queue) < daemon_operations_to_transform
            THEN /\ panicked' = "Whoopsie, we don't have enough operations cached."
                 /\ UNCHANGED <<editor_revision, operations, editor_queue, document>>
            ELSE \E result \in {transform_through_operations(op,
                                    UnseenOperations(editor_queue,
                                                     daemon_operations_to_transform))} :
                 IF ~result.ok
                 THEN \* the queue was cut before the transform panicked
                      /\ panicked' = result.why
                      /\ editor_queue' = UnseenOperations(editor_queue,
                                                          daemon_operations_to_transform)
                      /\ UNCHANGED <<editor_revision, operations, document>>
                 ELSE /\ editor_queue' = result.val.mine
                      /\ add_editor_operation(result.val.their)

----------------------------------------------------------------------------
(* The callers of the OTServer: any single-range op, any revision. *)

\* The text the callers insert
InsertTexts == {<<"y">>}

ForwardRanges(n) == {x \in (0..n) \X (0..n) : x[1] < x[2]}

SingleOps ==
    {InsertOp(at, s) : at \in 0..MaxPos, s \in InsertTexts}
    \cup {DeleteOp(x[1], x[2]) : x \in ForwardRanges(MaxPos)}

\* OTServer::new and OTServer::new_with_doc; <<"u">> is a document with a
\* character of two bytes
InitDocs == {Prefix(n) : n \in 0..MaxInitLen} \cup {<<"u">>}

NoOp == [v |-> <<>>]

InitOT ==
    /\ editor_revision = 0
    /\ daemon_revision = 0
    /\ operations = <<>>
    /\ editor_queue = <<>>
    /\ document \in InitDocs
    /\ panicked = NoPanic
    /\ last = [call |-> "new", rev |-> 0, op |-> NoOp, branch |-> "-",
               returned |-> "()",
               pre |-> [editor_revision |-> 0, daemon_revision |-> 0,
                        operations |-> <<>>, editor_queue |-> <<>>,
                        document |-> document]]
    /\ reported = [seen |-> 0, honest |-> TRUE]

NotCalled == [called |-> FALSE]

\* transform_through_operations is not exercised under Spec
IdleTT ==
    /\ base_text = <<>>
    /\ their_operation = NoOp
    /\ my_operations = <<>>
    /\ transformed = NotCalled

Init == InitOT /\ IdleTT /\ IdleDaemons /\ IdleWire /\ IdleEd

CrdtChange ==
    /\ panicked = NoPanic
    /\ daemon_revision < MaxDaemonRev
    /\ \E op \in SingleOps :
           /\ last' = Call("apply_crdt_change", -1, op, "-")
           /\ apply_crdt_change(op)
    /\ UNCHANGED reported
    /\ UNCHANGED ttVars
    /\ UNCHANGED <<actorVars, peerVars, connVars, wireVars, edVars>>

\* An editor reports a revision it has seen: one that exists, and never an
\* earlier one than before
EditorOperation ==
    /\ panicked = NoPanic
    /\ editor_revision < MaxEditorRev
    /\ \E rev \in 0..(daemon_revision + 1), op \in SingleOps :
           /\ apply_editor_operation(rev, op)
           /\ reported' = [seen |-> rev,
                           honest |-> /\ reported.honest
                                      /\ reported.seen <= rev
                                      /\ rev <= daemon_revision]
    /\ UNCHANGED ttVars
    /\ UNCHANGED <<actorVars, peerVars, connVars, wireVars, edVars>>

Next == CrdtChange \/ EditorOperation

Spec == Init /\ [][Next]_vars

----------------------------------------------------------------------------
(* transform_through_operations on its own: a base text, an editor op on    *)
(* it, and a queue of daemon ops, each on the text its predecessors left.   *)

\* What the editor and the daemon insert; "u" has two bytes
TheirTexts == {<<"x">>, <<"u", "y">>}
MyTexts == {<<"p", "q">>}

\* An op as OperationSeq::apply applies it to a text of any length: the
\* trailing retain that Op::from drops is put back
ApplyOp(op, s) ==
    CHOOSE r \in {
    IF ~ot_op.ok THEN ot_op
    ELSE Apply(IF ot_op.val.base_len < NumChars(s)
               THEN SeqRetain(ot_op.val, NumChars(s) - ot_op.val.base_len)
               ELSE ot_op.val, s)
    : ot_op \in {ToOt(op)}} : TRUE

RECURSIVE ApplyOps(_, _)
\* The ops of a sequence applied one after the other
ApplyOps(arg1, arg2) ==
    CHOOSE r \in {
    IF ops = <<>> THEN Ok(s)
    ELSE IF ~first.ok THEN first
    ELSE ApplyOps(Tail(ops), first.val)
    : ops \in {arg1}, s \in {arg2},
      first \in {IF arg1 = <<>> THEN Ok(arg2) ELSE ApplyOp(Head(arg1), arg2)}}
    : TRUE

\* The single-range ops the editor can make on text s: inserts, and deletions
\* selected forwards or backwards
TheirOpsOn(s) ==
    {InsertOp(at, w) : at \in 0..Len(s), w \in TheirTexts}
    \cup {DeleteOp(x[1], x[2]) : x \in ForwardRanges(Len(s))}
    \cup {DeleteOp(x[2], x[1]) : x \in ForwardRanges(Len(s))}

\* The single-range ops the daemon can make on text s
MyOpsOn(s) ==
    {InsertOp(at, w) : at \in 0..Len(s), w \in MyTexts}
    \cup {DeleteOp(x[1], x[2]) : x \in ForwardRanges(Len(s))}

\* No OTServer is exercised under SpecTransform
IdleOT ==
    /\ editor_revision = 0
    /\ daemon_revision = 0
    /\ operations = <<>>
    /\ editor_queue = <<>>
    /\ document = <<>>
    /\ panicked = NoPanic
    /\ last = [call |-> "new", rev |-> 0, op |-> NoOp, branch |-> "-",
               returned |-> "()",
               pre |-> [editor_revision |-> 0, daemon_revision |-> 0,
                        operations |-> <<>>, editor_queue |-> <<>>,
                        document |-> <<>>]]
    /\ reported = [seen |-> 0, honest |-> TRUE]

InitTransform ==
    /\ IdleOT
    /\ base_text \in {Prefix(n) : n \in 0..MaxBaseLen}
    /\ their_operation \in TheirOpsOn(base_text)
    /\ my_operations = <<>>
    /\ transformed = NotCalled
    /\ IdleDaemons
    /\ IdleWire
    /\ IdleEd

\* The daemon makes one more op, on the text its earlier ops left
PushMyOperation ==
    /\ ~transformed.called
    /\ Len(my_operations) < MaxQueue
    /\ \E m \in MyOpsOn(ApplyOps(my_operations, base_text).val) :
           my_operations' = Append(my_operations, m)
    /\ UNCHANGED <<base_text, their_operation, transformed>>
    /\ UNCHANGED otVars
    /\ UNCHANGED <<actorVars, peerVars, connVars, wireVars, edVars>>

\* their_operation.transform_through_operations(&my_operations)
TransformThrough ==
    /\ ~transformed.called
    /\ transformed' = [called |-> TRUE,
                       result |-> transform_through_operations(their_operation,
                                                               my_operations)]
    /\ UNCHANGED <<base_text, their_operation, my_operations>>
    /\ UNCHANGED otVars
    /\ UNCHANGED <<actorVars, peerVars, connVars, wireVars, edVars>>

NextTransform == PushMyOperation \/ TransformThrough

SpecTransform == InitTransform /\ [][NextTransform]_vars

----------------------------------------------------------------------------
(* The claims. *)

IsEditorCall == last.call = "apply_editor_operation"
IsCrdtCall == last.call = "apply_crdt_change"

\* k = daemon_revision - editor_daemon_rev of the last editor call
LastK == last.pre.daemon_revision - last.rev

\* C1: apply_crdt_change increases daemon_revision by exactly 1, appends the
\* op at the end of editor_queue (its length grows by exactly 1) and leaves
\* editor_revision unchanged, for every state and every op -- also when the
\* op does not fit the tracked document and the call ends in a panic.
C1_CrdtChangeCounts ==
    IsCrdtCall =>
        /\ daemon_revision = last.pre.daemon_revision + 1
        /\ Len(editor_queue) = Len(last.pre.editor_queue) + 1
        /\ editor_queue = Append(last.pre.editor_queue, last.op)
        /\ editor_revision = last.pre.editor_revision

\* C1 witness: a daemon op was recorded behind an op already queued, after
\* the editor had sent an operation of its own.
C1_Witness ==
    /\ IsCrdtCall
    /\ panicked = NoPanic
    /\ Len(last.pre.editor_queue) >= 1
    /\ editor_revision >= 1

\* C2 (the claim as stated): after every apply_editor_operation call with
\* editor_daemon_rev <= daemon_revision, editor_queue holds exactly
\* k = daemon_revision - editor_daemon_rev entries, the transformed versions
\* of the last k entries of the queue before the call; also for k = 0.
C2_QueueHoldsExactlyK ==
    (IsEditorCall /\ last.rev <= last.pre.daemon_revision /\ panicked = NoPanic) =>
        /\ Len(editor_queue) = LastK
        /\ LastK <= Len(last.pre.editor_queue)
        /\ editor_queue =
               transform_through_operations(
                   last.op, UnseenOperations(last.pre.editor_queue, LastK)).val.mine

\* C4 (the claim as stated): an op whose editor_daemon_rev is greater than
\* daemon_revision is rejected as a protocol error: the caller is told, so
\* that it can terminate the editor connection.
C4_FutureRevisionIsAnError ==
    (IsEditorCall /\ last.rev > last.pre.daemon_revision) =>
        last.returned = "protocol error"

\* C5 (the claim as stated): an op with k greater than editor_queue.len()
\* does not panic the reconciler.
C5_StaleRevisionDoesNotPanic ==
    (IsEditorCall /\ last.rev <= last.pre.daemon_revision
                  /\ LastK > Len(last.pre.editor_queue)) =>
        panicked = NoPanic

\* C6 (the claim as stated): whenever the editor has reported the daemon
\* revisions it has seen (existing ones, never going back),
\* editor_queue.len() = daemon_revision - the revision reported last.
C6_QueueLengthIsUnseenCount ==
    reported.honest => Len(editor_queue) = daemon_revision - reported.seen

\* C7: in every reachable state editor_queue.len() <= daemon_revision.
C7_QueueWithinDaemonRevision ==
    Len(editor_queue) <= daemon_revision

\* C7 witness: an editor operation that had seen one of two daemon ops cut
\* the queue below daemon_revision.
C7_Witness ==
    /\ panicked = NoPanic
    /\ IsEditorCall
    /\ last.branch = "older"
    /\ 0 < Len(editor_queue)
    /\ Len(editor_queue) < daemon_revision

\* C8: an editor operation that is accepted (editor_daemon_rev <=
\* daemon_revision and the call returns), transformed or not, increases
\* editor_revision by exactly 1 and leaves daemon_revision unchanged; and no
\* call of either kind decreases editor_revision or daemon_revision.
C8_EditorOperationCounts ==
    /\ (IsEditorCall /\ last.rev <= last.pre.daemon_revision /\ panicked = NoPanic) =>
           /\ editor_revision = last.pre.editor_revision + 1
           /\ daemon_revision = last.pre.daemon_revision
    /\ editor_revision >= last.pre.editor_revision
    /\ daemon_revision >= last.pre.daemon_revision

\* C8 witness: a second editor operation, transformed through two queued
\* daemon ops, was accepted.
C8_Witness ==
    /\ IsEditorCall
    /\ last.branch = "older"
    /\ panicked = NoPanic
    /\ LastK = 2
    /\ editor_revision = 2

\* The result of the transform, once it was called and did not panic
Done == transformed.called /\ transformed.result.ok

IsInsert(op) ==
    /\ Len(op.v) = 1
    /\ RangeEmpty(op.v[1].range)
    /\ op.v[1].replacement # <<>>

RECURSIVE InsertsAt(_, _)
\* Every op of the queue inserts where the editor's insert is by then: the
\* first at column p, the next behind the first one's text, and so on
InsertsAt(queue, p) ==
    \/ queue = <<>>
    \/ /\ IsInsert(Head(queue))
       /\ Head(queue).v[1].range.anchor.column = p
       /\ InsertsAt(Tail(queue), p + NumChars(Head(queue).v[1].replacement))

RECURSIVE InsertedChars(_)
InsertedChars(queue) ==
    IF queue = <<>> THEN 0
    ELSE NumChars(Head(queue).v[1].replacement) + InsertedChars(Tail(queue))

\* C9: when the editor's insert meets queued daemon inserts at its own
\* position (one, or a chain of n), the transformed editor insert is placed
\* behind the daemon's text, its column moved right by the length of what
\* the daemon inserted, and the queue is returned unchanged.
C9_EditorInsertGoesAfter ==
    (/\ transformed.called
     /\ my_operations # <<>>
     /\ IsInsert(their_operation)
     /\ InsertsAt(my_operations, their_operation.v[1].range.anchor.column)) =>
        /\ transformed.result.ok
        /\ transformed.result.val.their =
               InsertOp(their_operation.v[1].range.anchor.column
                            + InsertedChars(my_operations),
                        their_operation.v[1].replacement)
        /\ transformed.result.val.mine = my_operations

\* C9 witness: the editor's insert met a chain of two daemon inserts.
C9_Witness ==
    /\ Done
    /\ Len(my_operations) = 2
    /\ IsInsert(their_operation)
    /\ their_operation.v[1].range.anchor.column = 1
    /\ InsertsAt(my_operations, 1)

\* The queue is one forward deletion whose range strictly contains the
\* column of the editor's insert
DeletionAroundInsert ==
    /\ IsInsert(their_operation)
    /\ Len(my_operations) = 1
    /\ Len(my_operations[1].v) = 1
    /\ my_operations[1].v[1].replacement = <<>>
    /\ my_operations[1].v[1].range.anchor.column
           < their_operation.v[1].range.anchor.column
    /\ their_operation.v[1].range.anchor.column
           < my_operations[1].v[1].range.head.column

\* C10: a queued deletion [from, to) around an editor insert at p gives an
\* editor insert at `from` and a queue op of two deletions, before and
\* behind the inserted text; applied to the text that holds the insert, the
\* queue op deletes the characters from..to-1 of the base text and nothing
\* else.
C10_DeletionSplitsAroundInsert ==
    (transformed.called /\ DeletionAroundInsert) =>
        LET from == my_operations[1].v[1].range.anchor.column
            to == my_operations[1].v[1].range.head.column
            p == their_operation.v[1].range.anchor.column
            text == their_operation.v[1].replacement
        IN /\ transformed.result.ok
           /\ transformed.result.val.their = InsertOp(from, text)
           /\ transformed.result.val.mine =
                  <<[v |-> <<OpElement(from, p, <<>>),
                             OpElement(from + NumChars(text),
                                       from + NumChars(text) + (to - p), <<>>)>>]>>
           /\ ApplyOps(<<their_operation>> \o transformed.result.val.mine,
                       base_text)
                  = Ok(SubSeq(base_text, 1, from) \o text
                       \o SubSeq(base_text, to + 1, Len(base_text)))

\* C10 witness: an insert of two characters inside a deletion that leaves
\* text on both sides.
C10_Witness ==
    /\ Done
    /\ DeletionAroundInsert
    /\ my_operations[1].v[1].range.anchor.column > 0
    /\ my_operations[1].v[1].range.head.column < Len(base_text)
    /\ NumChars(their_operation.v[1].replacement) = 2

----------------------------------------------------------------------------
(* The CRDT replica: struct Document (daemon.rs:75-161) over automerge.    *)
(* A replica is the set of changes it holds.  A character of the text is   *)
(* named by a number: the characters of the initial text are 0, -1, ...,   *)
(* the character a change inserts has the id of the change; the text lists *)
(* its characters in increasing order, for every replica alike.            *)

Change(id, op, arg) == [id |-> id, op |-> op, arg |-> arg]

\* the text of a file of n characters
InitText(n) == [i \in 1..n |-> i - n]

RECURSIVE SortedSeq(_)
SortedSeq(S) ==
    IF S = {} THEN <<>>
    ELSE LET m == CHOOSE x \in S : \A y \in S : x <= y
         IN <<m>> \o SortedSeq(S \ {m})

\* Document::text_obj
text_obj(doc) == \E c \in doc : c.op = "init"

LiveChars(doc) ==
    (UNION {{i - c.arg : i \in 1..c.arg} : c \in {x \in doc : x.op = "init"}}
     \cup {c.id : c \in {x \in doc : x.op = "ins"}})
    \ {c.arg : c \in {x \in doc : x.op = "del"}}

\* Document::current_content
current_content(doc) ==
    IF text_obj(doc) THEN Ok(SortedSeq(LiveChars(doc)))
    ELSE Err("Automerge document doesn't have a text object")

\* Document::initialize_text
initialize_text(doc, text) == doc \cup {Change(0, "init", Len(text))}

\* the id of the k-th local change of daemon d
NewId(d, k) == 2 * k + (IF d = "A" THEN 1 ELSE 2)

\* one op of an EditorTextDelta: an insertion or the deletion of character arg
DeltaOp(op, arg) == [op |-> op, arg |-> arg]

RECURSIVE SpliceLoop(_, _, _, _)
SpliceLoop(arg1, arg2, arg3, arg4) ==
    CHOOSE r \in
        { IF delta = <<>> THEN doc
          ELSE SpliceLoop(doc \cup {Change(NewId(d, k), Head(delta).op,
                                           Head(delta).arg)},
                          Tail(delta), d, k + 1)
          : doc \in {arg1}, delta \in {arg2}, d \in {arg3}, k \in {arg4} } : TRUE

\* Document::apply_delta_to_doc: one splice_text per op of the delta
DocumentApplyDelta(doc, delta, d, k) == SpliceLoop(doc, delta, d, k)

\* the deltas that can be made on a text: empty, an insertion, a deletion,
\* a replacement
DeltasOn(text) ==
    {<<>>, <<DeltaOp("ins", 0)>>}
    \cup {<<DeltaOp("del", text[i])>> : i \in 1..Len(text)}
    \cup {<<DeltaOp("ins", 0), DeltaOp("del", text[i])>> : i \in 1..Len(text)}

\* DocumentActor::random_delta: an insertion, then a deletion of up to 3
\* characters (none at the end of the text)
random_delta(text) == {delta \in DeltasOn(text) : delta # <<>> /\ delta[1].op = "ins"}

\* Document::generate_sync_message
generate_sync_message(doc, st) ==
    LET changes_to_send == IF st.their_known THEN doc \ st.their_heads ELSE {}
        heads_unchanged == st.last_sent_heads = doc
        heads_equal == st.their_known /\ st.their_heads = doc
        fresh == changes_to_send \ st.sent_hashes
    IN IF /\ heads_unchanged
          /\ st.have_responded
          /\ (heads_equal /\ changes_to_send = {}) \/ st.in_flight
       THEN [state |-> st, some |-> FALSE, message |-> NoSyncMessage]
       ELSE [state |-> [st EXCEPT !.have_responded = TRUE,
                                  !.last_sent_heads = doc,
                                  !.sent_hashes = @ \cup fresh,
                                  !.in_flight = TRUE],
             some |-> TRUE,
             message |-> SyncMessage(doc, fresh)]

\* Document::receive_sync_message and receive_sync_message_log_patches
receive_sync_message(doc, st, message) ==
    LET after == doc \cup message.changes
        st1 == [st EXCEPT !.in_flight = FALSE,
                          !.sent_hashes = @ \ message.heads,
                          !.last_sent_heads =
                              IF message.changes = {} /\ message.heads = doc
                              THEN message.heads ELSE @]
        st2 == IF message.heads = {}
               THEN [st1 EXCEPT !.last_sent_heads = {}, !.sent_hashes = {}]
               ELSE st1
    IN [doc |-> after,
        state |-> [st2 EXCEPT !.their_known = TRUE,
                              !.their_heads = message.heads]]

----------------------------------------------------------------------------
(* The OT reconciler of the daemon: crate::ot::OTServer as daemon.rs calls *)
(* it (daemon.rs:206, 306-307, 357).  A delta names the characters it      *)
(* deletes, so that transforming a delta through another one only drops    *)
(* the deletions of characters the other one has deleted already.          *)

\* the characters the deltas of a queue delete
DeletedBy(queue) ==
    UNION {{queue[i][j].arg : j \in {x \in 1..Len(queue[i]) :
                                       queue[i][x].op = "del"}}
           : i \in 1..Len(queue)}

\* a delta without its deletions of the characters of dead
Without(delta, dead) ==
    SelectSeq(delta, LAMBDA o : ~(o.op = "del" /\ o.arg \in dead))

\* OTServer::apply_crdt_change: the delta is queued and counted, and goes
\* to the editor with the editor revision
ot_server_apply_crdt_change(server, delta) ==
    [server |-> [server EXCEPT !.daemon_revision = @ + 1,
                               !.editor_queue = Append(@, delta)],
     rev_delta |-> RevisionedDelta(server.editor_revision, delta)]

\* OTServer::apply_editor_operation: the last k deltas of the queue are
\* those the editor has not seen; the editor's delta is transformed
\* through them and they through it, and they go to the editor again with
\* the new editor revision.  A revision the daemon has not reached, or
\* one below what the editor has acknowledged, is fatal.
ot_server_apply_editor_operation(server, rev_delta) ==
    LET k == server.daemon_revision - rev_delta.revision
        len == Len(server.editor_queue)
        fatal == k < 0 \/ k > len
        unseen == IF fatal THEN <<>>
                  ELSE SubSeq(server.editor_queue, len - k + 1, len)
        rebased == [i \in 1..Len(unseen) |->
                        Without(unseen[i], DeletedBy(<<rev_delta.delta>>))]
        revision == server.editor_revision + 1
    IN [ok |-> ~fatal,
        server |-> [server EXCEPT !.editor_revision = revision,
                                  !.editor_queue = rebased],
        delta_for_crdt |-> Without(rev_delta.delta, DeletedBy(unseen)),
        rev_deltas_for_editor |->
            [i \in 1..Len(unseen) |-> RevisionedDelta(revision, rebased[i])]]

\* the patches of receive_sync_message_log_patches (daemon.rs:79-90) as
\* the deltas process_crdt_patches_in_ot makes of them (daemon.rs:341-353):
\* one for every insertion and deletion the replica did not hold; the
\* patch that puts the text object into the document is no delta
PatchDeltas(before, after) ==
    LET new == {c \in after \ before : c.op # "init"}
        ids == SortedSeq({c.id : c \in new})
    IN [i \in 1..Len(ids) |->
            LET c == CHOOSE x \in new : x.id = ids[i]
            IN <<DeltaOp(c.op, c.arg)>>]

----------------------------------------------------------------------------
(* The Document Actor: DocumentActor (daemon.rs:166-416).  One message is  *)
(* handled in up to five steps: it is received, its mutation is applied    *)
(* to the replica, the change-ping is sent, the rest of handle_message     *)
(* runs (editors, reply), and the content is written to the file.          *)

MutatingKinds == {"Delta", "RevDelta", "RandomEdit", "ReceiveSyncMessage"}

\* a panic of the actor task: run() never returns to recv
ActorPanics(d, why) ==
    /\ actor' = [actor EXCEPT ![d].pc = "panicked", ![d].panic = why]
    /\ UNCHANGED <<crdt_doc, ot_server, editor_clients, file, next_change,
                   response>>

\* DocumentActor::apply_delta_to_doc, the replica's part (daemon.rs:405);
\* the ping of daemon.rs:406 is the step ActorPing.  deltas is what the
\* handler holds for the reconciler or the editors after the ping.
ActorAppliesDelta(d, delta, deltas) ==
    /\ crdt_doc' = [crdt_doc EXCEPT
                        ![d] = DocumentApplyDelta(@, delta, d, next_change[d])]
    /\ next_change' = [next_change EXCEPT ![d] = @ + Len(delta)]
    /\ actor' = [actor EXCEPT ![d].pc = "ping", ![d].committed = TRUE,
                              ![d].advanced = (delta # <<>>),
                              ![d].deltas = deltas]
    /\ UNCHANGED <<editor_clients, file, response>>

\* a run() that would receive while a message is being handled
ActorRecvAnytime(d) ==
    /\ actor[d].pc # "panicked"
    /\ doc_message_rx[d] # <<>>
    /\ actor' = [actor EXCEPT ![d] = [ActorNew EXCEPT
                                          !.pc = "handle",
                                          !.message = Head(doc_message_rx[d])]]
    /\ doc_message_rx' = [doc_message_rx EXCEPT ![d] = Tail(@)]
    /\ UNCHANGED <<role, crdt_doc, ot_server, editor_clients, file, next_change, injected>>
    /\ UNCHANGED peerVars
    /\ UNCHANGED libVars
    /\ UNCHANGED connVars

\* run(): doc_message_rx.recv() (daemon.rs:410)
ActorRecv(d) ==
    /\ actor[d].pc = "recv"
    /\ doc_message_rx[d] # <<>>
    /\ actor' = [actor EXCEPT ![d] = [ActorNew EXCEPT
                                          !.pc = "handle",
                                          !.message = Head(doc_message_rx[d])]]
    /\ doc_message_rx' = [doc_message_rx EXCEPT ![d] = Tail(@)]
    /\ UNCHANGED <<role, crdt_doc, ot_server, editor_clients, file, next_change, injected>>
    /\ UNCHANGED peerVars
    /\ UNCHANGED libVars
    /\ UNCHANGED connVars

\* handle_message up to the mutation of the replica (daemon.rs:196-266)
ActorHandle(d) ==
    /\ actor[d].pc = "handle"
    /\ LET m == actor[d].message
           content == current_content(crdt_doc[d])
       IN CASE m.kind = "GetContent" ->
                   /\ actor' = [actor EXCEPT ![d].pc = "write"]
                   /\ UNCHANGED <<crdt_doc, ot_server, editor_clients, file,
                                  next_change, response>>
            [] m.kind = "NewEditorConnection" ->
                   /\ editor_clients' = [editor_clients EXCEPT ![d] = @ \cup {0}]
                   /\ actor' = [actor EXCEPT ![d].pc = "write"]
                   /\ UNCHANGED <<crdt_doc, ot_server, file, next_change,
                                  response>>
            [] m.kind = "Open" ->
                   IF content.ok
                   THEN /\ ot_server' = [ot_server EXCEPT ![d] = OTServerNew]
                        /\ actor' = [actor EXCEPT ![d].pc = "write"]
                        /\ UNCHANGED <<crdt_doc, editor_clients, file,
                                       next_change, response>>
                   ELSE ActorPanics(d, "Should have initialized text before initializing the document")
            [] m.kind = "Close" ->
                   /\ ot_server' = [ot_server EXCEPT ![d] = NoOTServer]
                   /\ actor' = [actor EXCEPT ![d].pc = "write"]
                   /\ UNCHANGED <<crdt_doc, editor_clients, file, next_change,
                                  response>>
            [] m.kind = "RandomEdit" ->
                   IF content.ok
                   THEN /\ \E delta \in random_delta(content.val) :
                               ActorAppliesDelta(d, delta, <<delta>>)
                        /\ UNCHANGED ot_server
                   ELSE ActorPanics(d, "Should have initialized text before performing random edit")
            [] m.kind = "Delta" ->
                   IF content.ok
                   THEN /\ ActorAppliesDelta(d, m.delta, <<m.delta>>)
                        /\ UNCHANGED ot_server
                   ELSE ActorPanics(d, "Should have initialized text before performing random edit")
            [] m.kind = "RevDelta" ->
                   \* apply_delta_to_ot (daemon.rs:294-310), then
                   \* apply_delta_to_doc (daemon.rs:236)
                   IF ~content.ok
                   THEN ActorPanics(d, "Should have initialized text before performing random edit")
                   ELSE IF ~ot_server[d].some
                   THEN ActorPanics(d, "No editor connected, where does this delta come from?")
                   ELSE \E r \in {ot_server_apply_editor_operation(
                                       ot_server[d], m.delta)} :
                            IF r.ok
                            THEN /\ ot_server' = [ot_server EXCEPT ![d] = r.server]
                                 /\ ActorAppliesDelta(d, r.delta_for_crdt,
                                                      r.rev_deltas_for_editor)
                            ELSE ActorPanics(d, "OTServer::apply_editor_operation")
            [] m.kind = "ReceiveSyncMessage" ->
                   \* apply_sync_message_to_doc (daemon.rs:268-281): the
                   \* patches are logged only if there is a reconciler
                   \E r \in {receive_sync_message(crdt_doc[d], m.state, m.message)} :
                       /\ crdt_doc' = [crdt_doc EXCEPT ![d] = r.doc]
                       /\ actor' = [actor EXCEPT
                                        ![d].pc = "ping",
                                        ![d].committed = TRUE,
                                        ![d].advanced = (r.doc # crdt_doc[d]),
                                        ![d].message.state = r.state,
                                        ![d].deltas =
                                            IF ot_server[d].some
                                            THEN PatchDeltas(crdt_doc[d], r.doc)
                                            ELSE <<>>]
                       /\ UNCHANGED <<ot_server, editor_clients, file,
                                      next_change, response>>
            [] m.kind = "GenerateSyncMessage" ->
                   \E r \in {generate_sync_message(crdt_doc[d], m.state)} :
                       /\ response' =
                              IF m.conn \in Conns
                              THEN [response EXCEPT ![m.conn] =
                                        [sent |-> TRUE, state |-> r.state,
                                         some |-> r.some, message |-> r.message]]
                              ELSE response
                       /\ actor' = [actor EXCEPT ![d].pc = "write"]
                       /\ UNCHANGED <<crdt_doc, ot_server, editor_clients, file,
                                      next_change>>
    /\ UNCHANGED <<role, doc_message_rx, injected, conn_daemon,
                   doc_changed_ping_rx>>
    /\ UNCHANGED libVars
    /\ UNCHANGED connVars

\* broadcast::Sender::send on a channel of capacity 1, as one receiver sees
\* it: a second unread ping pushes the first out, and the receiver lags
BroadcastSend(rx) ==
    CASE rx = "empty" -> "one"
      [] rx = "one" -> "lagged"
      [] OTHER -> rx

\* a handler that would not send the ping
ActorPingSkipped(d) ==
    /\ actor[d].pc = "ping"
    /\ actor' = [actor EXCEPT ![d].pc = "finish"]
    /\ UNCHANGED <<role, crdt_doc, ot_server, editor_clients, file, doc_message_rx,
                   next_change, injected>>
    /\ UNCHANGED peerVars
    /\ UNCHANGED libVars
    /\ UNCHANGED connVars

\* a handler that would send the ping before it applies the mutation
ActorPingEarly(d) ==
    /\ actor[d].pc = "handle"
    /\ actor[d].message.kind \in MutatingKinds
    /\ actor[d].pings = 0
    /\ actor' = [actor EXCEPT ![d].pings = 1]
    /\ doc_changed_ping_rx' =
           [c \in Conns |-> IF conn_daemon[c] = d
                            THEN BroadcastSend(doc_changed_ping_rx[c])
                            ELSE doc_changed_ping_rx[c]]
    /\ UNCHANGED <<role, crdt_doc, ot_server, editor_clients, file, doc_message_rx,
                   next_change, injected, conn_daemon, response>>
    /\ UNCHANGED libVars
    /\ UNCHANGED connVars

\* doc_changed_ping_tx.send(()) (daemon.rs:282, 406)
ActorPing(d) ==
    /\ actor[d].pc = "ping"
    /\ actor' = [actor EXCEPT ![d].pc = "finish", ![d].pings = @ + 1]
    /\ doc_changed_ping_rx' =
           [c \in Conns |-> IF conn_daemon[c] = d
                            THEN BroadcastSend(doc_changed_ping_rx[c])
                            ELSE doc_changed_ping_rx[c]]
    /\ UNCHANGED <<role, crdt_doc, ot_server, editor_clients, file, doc_message_rx,
                   next_change, injected, conn_daemon, response>>
    /\ UNCHANGED libVars
    /\ UNCHANGED connVars

\* DocumentActor::send_to_editors (daemon.rs:362-371): every registered
\* handle is sent the message; what one handle is sent of rev_deltas
send_to_editors(d, rev_deltas) ==
    IF editor_clients[d] = {} THEN <<>> ELSE rev_deltas

\* a send_deltas_to_editor that would stop after the first delta
send_deltas_to_editor_once(d, rev_deltas) ==
    send_to_editors(d, IF rev_deltas = <<>> THEN <<>> ELSE <<Head(rev_deltas)>>)

\* a send_deltas_to_editor that would answer an edit that has nothing to
\* rebase with an empty delta
send_deltas_to_editor_ack(d, rev_deltas) ==
    send_to_editors(d, IF rev_deltas = <<>>
                       THEN <<RevisionedDelta(ot_server[d].editor_revision, <<>>)>>
                       ELSE rev_deltas)

\* DocumentActor::send_deltas_to_editor (daemon.rs:286-292)
send_deltas_to_editor(d, rev_deltas) == send_to_editors(d, rev_deltas)

\* apply_crdt_change and send_to_editors for one delta after the other
\* (daemon.rs:343-347, 357-358)
RECURSIVE CrdtDeltasLoop(_, _, _)
CrdtDeltasLoop(arg1, arg2, arg3) ==
    CHOOSE r \in
        { IF deltas = <<>> THEN [server |-> server, rev_deltas |-> rev_deltas]
          ELSE LET c == ot_server_apply_crdt_change(server, Head(deltas))
               IN CrdtDeltasLoop(c.server, Tail(deltas),
                                 Append(rev_deltas, c.rev_delta))
          : server \in {arg1}, deltas \in {arg2}, rev_deltas \in {arg3} } : TRUE

\* a process_crdt_delta_in_ot that would not ask whether there is a
\* reconciler
process_crdt_delta_in_ot_always(server, deltas) ==
    CrdtDeltasLoop(server, deltas, <<>>)

\* DocumentActor::process_crdt_delta_in_ot for the deltas of one message
\* (daemon.rs:355-360)
process_crdt_delta_in_ot(server, deltas) ==
    IF server.some THEN CrdtDeltasLoop(server, deltas, <<>>)
    ELSE [server |-> server, rev_deltas |-> <<>>]

\* the rest of handle_message: deltas to the reconciler and the editors
\* (daemon.rs:221, 229, 237, 245), the reply of ReceiveSyncMessage
\* (daemon.rs:247-249)
ActorFinish(d) ==
    /\ actor[d].pc = "finish"
    /\ LET m == actor[d].message
       IN /\ response' =
                 IF m.kind = "ReceiveSyncMessage" /\ m.conn \in Conns
                 THEN [response EXCEPT ![m.conn] =
                           [sent |-> TRUE, state |-> m.state, some |-> FALSE,
                            message |-> NoSyncMessage]]
                 ELSE response
          /\ IF m.kind = "RevDelta"
             THEN /\ actor' = [actor EXCEPT
                                   ![d].pc = "write",
                                   ![d].sent = send_deltas_to_editor(
                                                   d, actor[d].deltas)]
                  /\ UNCHANGED ot_server
             ELSE \E r \in {process_crdt_delta_in_ot(ot_server[d],
                                                     actor[d].deltas)} :
                      /\ ot_server' = [ot_server EXCEPT ![d] = r.server]
                      /\ actor' = [actor EXCEPT
                                       ![d].pc = "write",
                                       ![d].sent = send_to_editors(
                                                       d, r.rev_deltas)]
    /\ UNCHANGED <<role, crdt_doc, editor_clients, file, doc_message_rx,
                   next_change, injected, conn_daemon, doc_changed_ping_rx>>
    /\ UNCHANGED libVars
    /\ UNCHANGED connVars

\* a write that would happen only after a message that mutated the replica
write_current_content_to_file_if_mutated(d) ==
    LET content == current_content(crdt_doc[d])
    IN IF content.ok /\ ~ot_server[d].some /\ actor[d].committed
       THEN content.val ELSE file[d]

\* a write that would not look at the reconciler
write_current_content_to_file_always(d) ==
    LET content == current_content(crdt_doc[d])
    IN IF content.ok THEN content.val ELSE file[d]

\* a write that would take a replica without text object for an empty text
write_current_content_to_file_or_empty(d) ==
    LET content == current_content(crdt_doc[d])
    IN IF ot_server[d].some THEN file[d]
       ELSE IF content.ok THEN content.val ELSE <<>>

\* DocumentActor::write_current_content_to_file (daemon.rs:373-383)
write_current_content_to_file(d) ==
    LET content == current_content(crdt_doc[d])
    IN IF content.ok /\ ~ot_server[d].some THEN content.val ELSE file[d]

\* run(): write_current_content_to_file() after handle_message returned
\* (daemon.rs:412)
ActorWrite(d) ==
    /\ actor[d].pc = "write"
    /\ file' = [file EXCEPT ![d] = write_current_content_to_file(d)]
    /\ actor' = [actor EXCEPT ![d].pc = "recv"]
    /\ UNCHANGED <<role, crdt_doc, ot_server, editor_clients, doc_message_rx, next_change,
                   injected>>
    /\ UNCHANGED peerVars
    /\ UNCHANGED libVars
    /\ UNCHANGED connVars

----------------------------------------------------------------------------
(* One Document Actor and everything that can be sent to it                *)
(* (DocumentActorHandle, daemon.rs:425-493): SpecActor.                    *)

\* mpsc::channel(1) (daemon.rs:433)
DocMessageCapacity == 1

\* the content of the file of a joiner when it starts: empty, or a text
\* that is in no replica
StaleText == <<-9>>

\* Daemon::new: let is_host = peer.is_none() (daemon.rs:508)
is_host(peer) == peer = "None"

\* a DocumentActorHandle::new that would read the file whatever the role
StartDaemonsReadingFile(roles, texts) ==
    /\ role = roles
    /\ file = texts
    /\ crdt_doc = [d \in Daemons |->
                       IF roles[d] # "off" THEN initialize_text({}, texts[d])
                       ELSE {}]
    /\ ot_server = [d \in Daemons |-> NoOTServer]
    /\ editor_clients = [d \in Daemons |-> {}]
    /\ doc_message_rx = [d \in Daemons |-> <<>>]
    /\ actor = [d \in Daemons |-> ActorNew]
    /\ next_change = [d \in Daemons |-> 0]
    /\ injected = [d \in Daemons |-> 0]

\* DocumentActorHandle::new (daemon.rs:431-456): a host reads its file into
\* the replica, a joiner starts with an empty replica; roles and texts
\* give the role and the file content of every daemon
StartDaemons(roles, texts) ==
    /\ role = roles
    /\ file = texts
    /\ crdt_doc = [d \in Daemons |->
                       IF roles[d] = "host" THEN initialize_text({}, texts[d])
                       ELSE {}]
    /\ ot_server = [d \in Daemons |-> NoOTServer]
    /\ editor_clients = [d \in Daemons |-> {}]
    /\ doc_message_rx = [d \in Daemons |-> <<>>]
    /\ actor = [d \in Daemons |-> ActorNew]
    /\ next_change = [d \in Daemons |-> 0]
    /\ injected = [d \in Daemons |-> 0]

\* a message without payload
Plain(kind) == DocMessage(kind, <<>>, NoSyncMessage, SyncStateNew, 0)

\* the text a sender of deltas sees
TextOf(d) ==
    LET content == current_content(crdt_doc[d])
    IN IF content.ok THEN content.val ELSE <<>>

\* what a peer that is not modelled may hold: what this replica holds,
\* the text object if this replica has none, and a change of its own
RemoteDocs(d) ==
    LET with_text == IF text_obj(crdt_doc[d]) THEN crdt_doc[d]
                     ELSE initialize_text(crdt_doc[d], InitText(1))
    IN {crdt_doc[d], with_text, with_text \cup {Change(NewId("B", 0), "ins", 0)}}

\* the local changes a message can make at most
ChangeBudget(m) ==
    CASE m.kind = "RandomEdit" -> 2
      [] m.kind = "Delta" -> Len(m.delta)
      [] m.kind = "RevDelta" -> Len(m.delta.delta)
      [] OTHER -> 0

RECURSIVE QueueBudget(_)
QueueBudget(queue) ==
    IF queue = <<>> THEN 0
    ELSE ChangeBudget(Head(queue)) + QueueBudget(Tail(queue))

\* the local changes made and still to be made by the messages sent so far
ReservedChanges(d) ==
    next_change[d] + QueueBudget(doc_message_rx[d])
    + (IF actor[d].pc = "handle" THEN ChangeBudget(actor[d].message) ELSE 0)

\* the messages of editors, of the fuzzer and of peers that are not modelled
InjectableMessages(d) ==
    {Plain(k) : k \in {"GetContent", "Open", "Close", "RandomEdit",
                       "NewEditorConnection"}}
    \cup {DocMessage("Delta", delta, NoSyncMessage, SyncStateNew, 0) :
              delta \in DeltasOn(TextOf(d))}
    \cup {DocMessage("RevDelta", RevisionedDelta(revision, delta),
                     NoSyncMessage, SyncStateNew, 0) :
              revision \in 0..ot_server[d].daemon_revision,
              delta \in DeltasOn(TextOf(d))}
    \cup {DocMessage("ReceiveSyncMessage", <<>>,
                     SyncMessage(remote, remote \ crdt_doc[d]), SyncStateNew, 0) :
              remote \in RemoteDocs(d)}
    \cup {DocMessage("GenerateSyncMessage", <<>>, NoSyncMessage, SyncStateNew, 0)}

\* DocumentActorHandle::send_message (daemon.rs:459-464): waits for room
Inject(d) ==
    /\ role[d] # "off"
    /\ actor[d].pc # "panicked"
    /\ injected[d] < MaxInjected
    /\ Len(doc_message_rx[d]) < DocMessageCapacity
    /\ \E m \in InjectableMessages(d) :
           /\ ReservedChanges(d) + ChangeBudget(m) <= MaxChanges
           /\ doc_message_rx' = [doc_message_rx EXCEPT ![d] = Append(@, m)]
    /\ injected' = [injected EXCEPT ![d] = @ + 1]
    /\ UNCHANGED <<role, crdt_doc, ot_server, editor_clients, file, actor, next_change>>
    /\ UNCHANGED peerVars
    /\ UNCHANGED libVars
    /\ UNCHANGED connVars

\* no peer connection is opened under SpecActor
IdlePeers ==
    /\ conn_daemon = [c \in Conns |-> "none"]
    /\ doc_changed_ping_rx = [c \in Conns |-> "none"]
    /\ response = [c \in Conns |-> NoResponse]
    /\ IdleConns

InitActor ==
    /\ IdleOT
    /\ IdleTT
    /\ IdleWire
    /\ IdleEd
    /\ IdlePeers
    /\ \E peer \in {"None", "Some"} :
           \E r \in {IF is_host(peer) THEN "host" ELSE "joiner"} :
               \E text \in IF r = "host" THEN {InitText(0), InitText(1)}
                           ELSE {<<>>, StaleText} :
                   StartDaemons([d \in Daemons |-> IF d = "A" THEN r ELSE "off"],
                                [d \in Daemons |-> IF d = "A" THEN text ELSE <<>>])

NextActor ==
    \/ Inject("A")
    \/ ActorRecv("A")
    \/ ActorHandle("A")
    \/ ActorPing("A")
    \/ ActorFinish("A")
    \/ ActorWrite("A")

SpecActor == InitActor /\ [][NextActor]_vars

\* The runtime runs the actor task whenever it can make a step
\* (tokio::spawn at daemon.rs:450); the senders are under no obligation.
FairActor ==
    /\ WF_vars(ActorRecv("A"))
    /\ WF_vars(ActorHandle("A"))
    /\ WF_vars(ActorPing("A"))
    /\ WF_vars(ActorFinish("A"))
    /\ WF_vars(ActorWrite("A"))

FairSpecActor == SpecActor /\ FairActor

----------------------------------------------------------------------------
(* The tasks of one peer connection (peer.rs): the reader TCPReadActor,    *)
(* the writer TCPWriteActor, the Sync task SyncActor, and the pump that    *)
(* SyncActorHandle::new spawns to turn change-pings into                   *)
(* GenerateSyncMessage requests.  A task that returned is "stopped", one   *)
(* that panicked is "panicked"; either way what it owned is dropped.       *)

\* mpsc::channel(16) (peer.rs:191, 270)
SyncerCapacity == 16
TcpCapacity == 16

Ended(pc) == pc \in {"stopped", "panicked"}

\* what the reader finds on the stream: a frame, a frame whose length
\* prefix is negative, or the end of the stream
Frame(payload) == [kind |-> "frame", payload |-> payload]
EndOfStream == [kind |-> "eof", payload |-> NoSyncMessage]
NegativeLength == [kind |-> "negative", payload |-> NoSyncMessage]

\* a payload that is not the encoding of a sync message, and what
\* AutomergeSyncMessage::decode makes of a payload (peer.rs:135)
Undecodable == [bytes |-> "garbage"]
Decodes(payload) == "heads" \in DOMAIN payload

\* a cancel that would leave the token as it is
CancelNothing(c) == shutdown_token

\* a token that all connections of the daemon would share
CancelAll(c) == [x \in Conns |-> TRUE]

\* CancellationToken::cancel of the connection's token (peer.rs:71, 266)
Cancel(c) == [shutdown_token EXCEPT ![c] = TRUE]

\* TCPReadActor::run: read_message (peer.rs:57-64, 67, 70-71)
ReaderRead(c) ==
    /\ reader[c].pc = "read"
    /\ tcp[c] # <<>>
    /\ tcp' = [tcp EXCEPT ![c] = Tail(@)]
    /\ CASE Head(tcp[c]).kind = "eof" ->
                /\ reader' = [reader EXCEPT ![c].pc = "stopped"]
                /\ shutdown_token' = Cancel(c)
         [] Head(tcp[c]).kind = "negative" ->
                \* vec![0; message_len as usize] of a negative i32 asks for
                \* more than isize::MAX bytes and panics (peer.rs:60-61)
                /\ reader' = [reader EXCEPT ![c] = [pc |-> "panicked",
                                                    frame |-> NegativeLength]]
                /\ UNCHANGED shutdown_token
         [] OTHER ->
                /\ reader' = [reader EXCEPT ![c] = [pc |-> "forward",
                                                    frame |-> Head(tcp[c]).payload]]
                /\ UNCHANGED shutdown_token
    /\ UNCHANGED <<link, sync_actor, pump, writer, syncer_message_rx,
                   automerge_message_rx>>
    /\ UNCHANGED <<actorVars, peerVars, libVars, remote_sent>>

\* TCPReadActor::forward_sync_message (peer.rs:51-55, 68) through
\* SyncActorHandle::send (peer.rs:237-242)
ReaderForward(c) ==
    /\ reader[c].pc = "forward"
    /\ IF Ended(sync_actor[c].pc)
       THEN /\ reader' = [reader EXCEPT ![c].pc = "panicked"]
            /\ UNCHANGED syncer_message_rx
       ELSE /\ Len(syncer_message_rx[c]) < SyncerCapacity
            /\ syncer_message_rx' =
                   [syncer_message_rx EXCEPT
                        ![c] = Append(@, SyncerMessage("ReceiveSyncMessage",
                                                       reader[c].frame))]
            /\ reader' = [reader EXCEPT ![c] = [pc |-> "read",
                                                frame |-> NoSyncMessage]]
    /\ UNCHANGED <<link, tcp, shutdown_token, sync_actor, pump, writer,
                   automerge_message_rx>>
    /\ UNCHANGED <<actorVars, peerVars, libVars, remote_sent>>

\* TCPWriteActor::run: one message of the queue written as a frame
\* (peer.rs:92-104).  link[c] is the connection at the other end of the
\* stream, 0 for a peer that is not modelled, -1 once the other end closed
\* the stream: then the write is lost or fails, and a failed write panics.
WriterWrite(c) ==
    /\ writer[c] = "run"
    /\ automerge_message_rx[c] # <<>>
    /\ automerge_message_rx' = [automerge_message_rx EXCEPT ![c] = Tail(@)]
    /\ tcp' = IF link[c] \in Conns
              THEN [tcp EXCEPT ![link[c]] =
                        Append(@, Frame(Head(automerge_message_rx[c])))]
              ELSE tcp
    /\ \/ UNCHANGED writer
       \/ /\ link[c] = -1
          /\ writer' = [writer EXCEPT ![c] = "panicked"]
    /\ UNCHANGED <<link, shutdown_token, reader, sync_actor, pump,
                   syncer_message_rx>>
    /\ UNCHANGED <<actorVars, peerVars, libVars, remote_sent>>

\* TCPWriteActor::run: the queue is closed and empty (peer.rs:105-106)
WriterStop(c) ==
    /\ writer[c] = "run"
    /\ automerge_message_rx[c] = <<>>
    /\ Ended(sync_actor[c].pc)
    /\ writer' = [writer EXCEPT ![c] = "stopped"]
    /\ UNCHANGED <<link, tcp, shutdown_token, reader, sync_actor, pump,
                   syncer_message_rx, automerge_message_rx>>
    /\ UNCHANGED <<actorVars, peerVars, libVars, remote_sent>>

\* Both halves of the stream are dropped at the other end, with the
\* reader and the writer that owned them (peer.rs:269, 276-283): this end
\* reads the end of the stream
StreamClosed(c) ==
    /\ link[c] \in Conns
    /\ Ended(reader[link[c]].pc)
    /\ Ended(writer[link[c]])
    /\ tcp' = [tcp EXCEPT ![c] = Append(@, EndOfStream)]
    /\ link' = [link EXCEPT ![c] = -1]
    /\ UNCHANGED <<shutdown_token, reader, sync_actor, pump, writer,
                   syncer_message_rx, automerge_message_rx>>
    /\ UNCHANGED <<actorVars, peerVars, libVars, remote_sent>>

\* the pump: syncer_message_tx_clone.send(GenerateSyncMessage) (peer.rs:209-212)
PumpSend(c) ==
    /\ pump[c] = "send"
    /\ IF Ended(sync_actor[c].pc)
       THEN /\ pump' = [pump EXCEPT ![c] = "panicked"]
            /\ UNCHANGED syncer_message_rx
       ELSE /\ Len(syncer_message_rx[c]) < SyncerCapacity
            /\ syncer_message_rx' =
                   [syncer_message_rx EXCEPT
                        ![c] = Append(@, SyncerMessage("GenerateSyncMessage",
                                                       NoSyncMessage))]
            /\ pump' = [pump EXCEPT ![c] = "wait"]
    /\ UNCHANGED <<link, tcp, shutdown_token, reader, sync_actor, writer,
                   automerge_message_rx>>
    /\ UNCHANGED <<actorVars, peerVars, libVars, remote_sent>>

\* the pump: select! finds the token cancelled (peer.rs:214-217)
PumpStop(c) ==
    /\ pump[c] = "wait"
    /\ shutdown_token[c]
    /\ pump' = [pump EXCEPT ![c] = "stopped"]
    /\ UNCHANGED <<link, tcp, shutdown_token, reader, sync_actor, writer,
                   syncer_message_rx, automerge_message_rx>>
    /\ UNCHANGED <<actorVars, peerVars, libVars, remote_sent>>

\* a pump that would take Lagged for an empty channel and go on waiting
PumpWakeDropsLagged(c) ==
    /\ pump[c] = "wait"
    /\ doc_changed_ping_rx[c] \in {"one", "lagged"}
    /\ doc_changed_ping_rx' = [doc_changed_ping_rx EXCEPT ![c] = "empty"]
    /\ pump' = [pump EXCEPT ![c] = IF doc_changed_ping_rx[c] = "lagged"
                                   THEN "wait" ELSE "send"]
    /\ UNCHANGED <<conn_daemon, response>>
    /\ UNCHANGED <<link, tcp, shutdown_token, reader, sync_actor, writer,
                   syncer_message_rx, automerge_message_rx>>
    /\ UNCHANGED <<actorVars, libVars, remote_sent>>

\* the pump: select! finds a ping or Lagged (peer.rs:218-229).  After
\* Lagged the receiver stands at the ping the channel still holds.
PumpWake(c) ==
    /\ pump[c] = "wait"
    /\ doc_changed_ping_rx[c] \in {"one", "lagged"}
    /\ doc_changed_ping_rx' =
           [doc_changed_ping_rx EXCEPT
                ![c] = IF @ = "lagged" THEN "one" ELSE "empty"]
    /\ pump' = [pump EXCEPT ![c] = "send"]
    /\ UNCHANGED <<conn_daemon, response>>
    /\ UNCHANGED <<link, tcp, shutdown_token, reader, sync_actor, writer,
                   syncer_message_rx, automerge_message_rx>>
    /\ UNCHANGED <<actorVars, libVars, remote_sent>>

\* a Sync task whose select! would have no branch for the token
SyncStopNever(c) ==
    /\ sync_actor[c].pc = "idle"
    /\ shutdown_token[c]
    /\ UNCHANGED vars

\* a Sync task that cancellation would also end while it waits for the
\* reply of the actor
SyncStopAnytime(c) ==
    /\ sync_actor[c].pc \in {"idle", "await"}
    /\ shutdown_token[c]
    /\ sync_actor' = [sync_actor EXCEPT ![c].pc = "stopped"]
    /\ syncer_message_rx' = [syncer_message_rx EXCEPT ![c] = <<>>]
    /\ UNCHANGED <<link, tcp, shutdown_token, reader, pump, writer,
                   automerge_message_rx>>
    /\ UNCHANGED <<actorVars, peerVars, libVars, remote_sent>>

\* SyncActor::run: select! finds the token cancelled (peer.rs:170-173);
\* the task returns and drops its inbox and its handle to the writer
SyncStop(c) ==
    /\ sync_actor[c].pc = "idle"
    /\ shutdown_token[c]
    /\ sync_actor' = [sync_actor EXCEPT ![c].pc = "stopped"]
    /\ syncer_message_rx' = [syncer_message_rx EXCEPT ![c] = <<>>]
    /\ UNCHANGED <<link, tcp, shutdown_token, reader, pump, writer,
                   automerge_message_rx>>
    /\ UNCHANGED <<actorVars, peerVars, libVars, remote_sent>>

\* SyncActor::run: select! finds a message in the inbox (peer.rs:176)
SyncRecv(c) ==
    /\ sync_actor[c].pc = "idle"
    /\ syncer_message_rx[c] # <<>>
    /\ sync_actor' = [sync_actor EXCEPT ![c].pc = "request",
                                        ![c].message = Head(syncer_message_rx[c])]
    /\ syncer_message_rx' = [syncer_message_rx EXCEPT ![c] = Tail(@)]
    /\ UNCHANGED <<link, tcp, shutdown_token, reader, pump, writer,
                   automerge_message_rx>>
    /\ UNCHANGED <<actorVars, peerVars, libVars, remote_sent>>

\* the request of SyncActor::handle_message (peer.rs:137-143, 150-155)
SyncerRequest(c) ==
    DocMessage(sync_actor[c].message.kind, <<>>, sync_actor[c].message.message,
               sync_actor[c].peer_state, c)

\* a handle_message that would not wait for the reply of the actor
SyncRequestNoAwait(c) ==
    /\ sync_actor[c].pc = "request"
    /\ actor[conn_daemon[c]].pc # "panicked"
    /\ Len(doc_message_rx[conn_daemon[c]]) < DocMessageCapacity
    /\ doc_message_rx' = [doc_message_rx EXCEPT
                              ![conn_daemon[c]] = Append(@, SyncerRequest(c))]
    /\ sync_actor' = [sync_actor EXCEPT ![c].pc = "idle"]
    /\ UNCHANGED <<role, crdt_doc, ot_server, editor_clients, file, actor, next_change,
                   injected>>
    /\ UNCHANGED <<link, tcp, shutdown_token, reader, pump, writer,
                   syncer_message_rx, automerge_message_rx>>
    /\ UNCHANGED <<peerVars, libVars, remote_sent>>

\* SyncActor::handle_message: the payload is decoded, and
\* document_handle.send_message is called with the sync state moved into
\* the request (peer.rs:135-143, 150-155; daemon.rs:459-464).  A payload
\* that does not decode panics the task at the expect of peer.rs:136.
SyncRequest(c) ==
    /\ sync_actor[c].pc = "request"
    /\ IF \/ ~Decodes(sync_actor[c].message.message)
          \/ actor[conn_daemon[c]].pc = "panicked"
       THEN /\ sync_actor' = [sync_actor EXCEPT ![c].pc = "panicked"]
            /\ syncer_message_rx' = [syncer_message_rx EXCEPT ![c] = <<>>]
            /\ UNCHANGED doc_message_rx
       ELSE /\ Len(doc_message_rx[conn_daemon[c]]) < DocMessageCapacity
            /\ doc_message_rx' =
                   [doc_message_rx EXCEPT
                        ![conn_daemon[c]] = Append(@, SyncerRequest(c))]
            /\ sync_actor' =
                   [sync_actor EXCEPT
                        ![c].pc = "await",
                        ![c].peer_state = SyncStateNew,
                        ![c].asked_at = Cardinality(crdt_doc[conn_daemon[c]])]
            /\ UNCHANGED syncer_message_rx
    /\ UNCHANGED <<role, crdt_doc, ot_server, editor_clients, file, actor, next_change,
                   injected>>
    /\ UNCHANGED <<link, tcp, shutdown_token, reader, pump, writer,
                   automerge_message_rx>>
    /\ UNCHANGED <<peerVars, libVars, remote_sent>>

\* a handle_message that would take the reply and keep the placeholder
SyncReplyKeepsPlaceholder(c) ==
    /\ sync_actor[c].pc = "await"
    /\ response[c].sent
    /\ sync_actor' =
           [sync_actor EXCEPT
                ![c].message =
                    IF response[c].some
                    THEN SyncerMessage("GenerateSyncMessage",
                                       response[c].message)
                    ELSE SyncerMessage("none", NoSyncMessage),
                ![c].pc = IF response[c].some THEN "tcp_send" ELSE "idle"]
    /\ response' = [response EXCEPT ![c] = NoResponse]
    /\ UNCHANGED syncer_message_rx
    /\ UNCHANGED <<conn_daemon, doc_changed_ping_rx>>
    /\ UNCHANGED <<link, tcp, shutdown_token, reader, pump, writer,
                   automerge_message_rx>>
    /\ UNCHANGED <<actorVars, libVars, remote_sent>>

\* SyncActor::handle_message: response_rx.await (peer.rs:144-146, 156-160)
SyncReply(c) ==
    /\ sync_actor[c].pc = "await"
    /\ IF response[c].sent
       THEN /\ sync_actor' =
                   [sync_actor EXCEPT
                        ![c].peer_state = response[c].state,
                        ![c].round_trip =
                            IF sync_actor[c].message.kind = "GenerateSyncMessage"
                            THEN sync_actor[c].asked_at ELSE @,
                        ![c].message =
                            IF response[c].some
                            THEN SyncerMessage("GenerateSyncMessage",
                                               response[c].message)
                            ELSE SyncerMessage("none", NoSyncMessage),
                        ![c].pc = IF response[c].some THEN "tcp_send"
                                                      ELSE "idle"]
            /\ response' = [response EXCEPT ![c] = NoResponse]
            /\ UNCHANGED syncer_message_rx
       ELSE \* the actor died with the request: the oneshot sender is dropped
            /\ actor[conn_daemon[c]].pc = "panicked"
            /\ sync_actor' = [sync_actor EXCEPT ![c].pc = "panicked"]
            /\ syncer_message_rx' = [syncer_message_rx EXCEPT ![c] = <<>>]
            /\ UNCHANGED response
    /\ UNCHANGED <<conn_daemon, doc_changed_ping_rx>>
    /\ UNCHANGED <<link, tcp, shutdown_token, reader, pump, writer,
                   automerge_message_rx>>
    /\ UNCHANGED <<actorVars, libVars, remote_sent>>

\* SyncActor::handle_message: tcp_handle.send(message) (peer.rs:160-162,
\* 258-263)
SyncTcpSend(c) ==
    /\ sync_actor[c].pc = "tcp_send"
    /\ IF Ended(writer[c])
       THEN /\ sync_actor' = [sync_actor EXCEPT ![c].pc = "panicked"]
            /\ syncer_message_rx' = [syncer_message_rx EXCEPT ![c] = <<>>]
            /\ UNCHANGED automerge_message_rx
       ELSE /\ Len(automerge_message_rx[c]) < TcpCapacity
            /\ automerge_message_rx' =
                   [automerge_message_rx EXCEPT
                        ![c] = Append(@, sync_actor[c].message.message)]
            /\ sync_actor' =
                   [sync_actor EXCEPT
                        ![c].pc = "idle",
                        ![c].message = SyncerMessage("none", NoSyncMessage)]
            /\ UNCHANGED syncer_message_rx
    /\ UNCHANGED <<link, tcp, shutdown_token, reader, pump, writer>>
    /\ UNCHANGED <<actorVars, peerVars, libVars, remote_sent>>

----------------------------------------------------------------------------
(* Two daemons joined by one connection: SpecSync.  Daemon A hosts the     *)
(* document, daemon B joined it (connect_with_peer, connect.rs:88-96, and  *)
(* accept_peer_loop, connect.rs:98-117); connection 1 is A's end and       *)
(* connection 2 is B's end of the same lossless stream.  Edits are sent    *)
(* to either actor.                                                        *)

\* the edits sent to the two daemons at most
MaxEdits == 1

\* a pump whose loop would begin with the select!
PumpNewWaiting == "wait"

\* the pump when it is spawned: its loop begins with the send
\* (peer.rs:207-212)
PumpNew == "send"

\* spawn_peer_sync (peer.rs:24-29): the four tasks of a connection start,
\* the pump is subscribed to the change-pings (peer.rs:203)
StartConns(daemons, links) ==
    /\ conn_daemon = daemons
    /\ link = links
    /\ doc_changed_ping_rx =
           [c \in Conns |-> IF daemons[c] = "none" THEN "none" ELSE "empty"]
    /\ response = [c \in Conns |-> NoResponse]
    /\ tcp = [c \in Conns |-> <<>>]
    /\ shutdown_token = [c \in Conns |-> FALSE]
    /\ reader = [c \in Conns |->
                     IF daemons[c] = "none" THEN ReaderOff
                     ELSE [ReaderOff EXCEPT !.pc = "read"]]
    /\ sync_actor = [c \in Conns |->
                         IF daemons[c] = "none" THEN SyncActorOff
                         ELSE [SyncActorOff EXCEPT !.pc = "idle"]]
    /\ pump = [c \in Conns |-> IF daemons[c] = "none" THEN "off" ELSE PumpNew]
    /\ writer = [c \in Conns |-> IF daemons[c] = "none" THEN "off" ELSE "run"]
    /\ syncer_message_rx = [c \in Conns |-> <<>>]
    /\ automerge_message_rx = [c \in Conns |-> <<>>]
    /\ remote_sent = [c \in Conns |-> 0]

\* the edits of the fuzzer and of peers: RandomEdit and Delta
EditMessages(d) ==
    {Plain("RandomEdit")}
    \cup {DocMessage("Delta", delta, NoSyncMessage, SyncStateNew, 0) :
              delta \in DeltasOn(TextOf(d)) \ {<<>>}}

\* DocumentActorHandle::send_message (daemon.rs:459-464) with an edit
InjectEdit(d) ==
    /\ role[d] # "off"
    /\ actor[d].pc # "panicked"
    /\ injected["A"] + injected["B"] < MaxEdits
    /\ Len(doc_message_rx[d]) < DocMessageCapacity
    /\ \E m \in EditMessages(d) :
           /\ ReservedChanges(d) + ChangeBudget(m) <= MaxChanges
           /\ doc_message_rx' = [doc_message_rx EXCEPT ![d] = Append(@, m)]
    /\ injected' = [injected EXCEPT ![d] = @ + 1]
    /\ UNCHANGED <<role, crdt_doc, ot_server, editor_clients, file, actor, next_change>>
    /\ UNCHANGED peerVars
    /\ UNCHANGED libVars
    /\ UNCHANGED connVars

InitSync ==
    /\ IdleOT
    /\ IdleTT
    /\ IdleWire
    /\ IdleEd
    /\ StartDaemons([d \in Daemons |-> IF d = "A" THEN "host" ELSE "joiner"],
                    [d \in Daemons |-> IF d = "A" THEN InitText(1) ELSE <<>>])
    /\ StartConns([c \in Conns |-> IF c = 1 THEN "A" ELSE "B"],
                  [c \in Conns |-> 3 - c])

NextSync ==
    \/ \E d \in Daemons : InjectEdit(d)
    \/ \E d \in Daemons : ActorRecv(d)
    \/ \E d \in Daemons : ActorHandle(d)
    \/ \E d \in Daemons : ActorPing(d)
    \/ \E d \in Daemons : ActorFinish(d)
    \/ \E d \in Daemons : ActorWrite(d)
    \/ \E c \in Conns : ReaderRead(c)
    \/ \E c \in Conns : ReaderForward(c)
    \/ \E c \in Conns : WriterWrite(c)
    \/ \E c \in Conns : WriterStop(c)
    \/ \E c \in Conns : StreamClosed(c)
    \/ \E c \in Conns : PumpSend(c)
    \/ \E c \in Conns : PumpStop(c)
    \/ \E c \in Conns : PumpWake(c)
    \/ \E c \in Conns : SyncStop(c)
    \/ \E c \in Conns : SyncRecv(c)
    \/ \E c \in Conns : SyncRequest(c)
    \/ \E c \in Conns : SyncReply(c)
    \/ \E c \in Conns : SyncTcpSend(c)

SpecSync == InitSync /\ [][NextSync]_vars

----------------------------------------------------------------------------
(* One host daemon and the peers that accept_peer_loop (connect.rs:98-117) *)
(* accepted.  The peers themselves are not modelled: they send frames and  *)
(* close their end of the stream.  SpecConn has one peer connection and    *)
(* edits; SpecPeers has two peer connections, the first of which ends.     *)

\* the frames a peer that is not modelled sends at most
MaxFrames == 1

\* the peer of connection c sends a sync message
RemoteSends(c) ==
    /\ link[c] = 0
    /\ conn_daemon[c] \in Daemons
    /\ remote_sent[c] < MaxFrames
    /\ \E remote \in RemoteDocs(conn_daemon[c]) :
           tcp' = [tcp EXCEPT
                       ![c] = Append(@, Frame(SyncMessage(
                                  remote, remote \ crdt_doc[conn_daemon[c]])))]
    /\ remote_sent' = [remote_sent EXCEPT ![c] = @ + 1]
    /\ UNCHANGED <<link, shutdown_token, reader, sync_actor, pump, writer,
                   syncer_message_rx, automerge_message_rx>>
    /\ UNCHANGED <<actorVars, peerVars, libVars>>

\* the peer of connection c closes the stream, or the stream breaks
RemoteCloses(c) ==
    /\ link[c] = 0
    /\ conn_daemon[c] \in Daemons
    /\ tcp' = [tcp EXCEPT ![c] = Append(@, EndOfStream)]
    /\ link' = [link EXCEPT ![c] = -1]
    /\ UNCHANGED <<shutdown_token, reader, sync_actor, pump, writer,
                   syncer_message_rx, automerge_message_rx>>
    /\ UNCHANGED <<actorVars, peerVars, libVars, remote_sent>>

\* the peer of connection c sends a frame with a negative length prefix,
\* or a frame whose payload is no sync message
RemoteSendsMalformed(c) ==
    /\ link[c] = 0
    /\ conn_daemon[c] \in Daemons
    /\ remote_sent[c] < MaxFrames
    /\ \E frame \in {NegativeLength, Frame(Undecodable)} :
           tcp' = [tcp EXCEPT ![c] = Append(@, frame)]
    /\ remote_sent' = [remote_sent EXCEPT ![c] = @ + 1]
    /\ UNCHANGED <<link, shutdown_token, reader, sync_actor, pump, writer,
                   syncer_message_rx, automerge_message_rx>>
    /\ UNCHANGED <<actorVars, peerVars, libVars>>

InitConn ==
    /\ IdleOT
    /\ IdleTT
    /\ IdleWire
    /\ IdleEd
    /\ StartDaemons([d \in Daemons |-> IF d = "A" THEN "host" ELSE "off"],
                    [d \in Daemons |-> IF d = "A" THEN InitText(1) ELSE <<>>])
    /\ StartConns([c \in Conns |-> IF c = 1 THEN "A" ELSE "none"],
                  [c \in Conns |-> 0])

NextConn ==
    \/ InjectEdit("A")
    \/ RemoteSends(1)
    \/ RemoteCloses(1)
    \/ ActorRecv("A")
    \/ ActorHandle("A")
    \/ ActorPing("A")
    \/ ActorFinish("A")
    \/ ActorWrite("A")
    \/ ReaderRead(1)
    \/ ReaderForward(1)
    \/ WriterWrite(1)
    \/ WriterStop(1)
    \/ PumpSend(1)
    \/ PumpStop(1)
    \/ PumpWake(1)
    \/ SyncStop(1)
    \/ SyncRecv(1)
    \/ SyncRequest(1)
    \/ SyncReply(1)
    \/ SyncTcpSend(1)

SpecConn == InitConn /\ [][NextConn]_vars

\* The runtime runs every task that can make a step, and a sender that
\* waits for room in a channel gets it when the receiver takes a message
\* (tokio::spawn at daemon.rs:450 and peer.rs:199, 207, 277, 281).  The
\* peer and the senders of edits are under no obligation.
FairConn ==
    /\ WF_vars(ActorRecv("A"))
    /\ WF_vars(ActorHandle("A"))
    /\ WF_vars(ActorPing("A"))
    /\ WF_vars(ActorFinish("A"))
    /\ WF_vars(ActorWrite("A"))
    /\ WF_vars(ReaderRead(1))
    /\ WF_vars(ReaderForward(1))
    /\ WF_vars(WriterWrite(1))
    /\ WF_vars(WriterStop(1))
    /\ WF_vars(PumpSend(1))
    /\ WF_vars(PumpStop(1))
    /\ WF_vars(PumpWake(1))
    /\ WF_vars(SyncStop(1))
    /\ WF_vars(SyncRecv(1))
    /\ WF_vars(SyncRequest(1))
    /\ WF_vars(SyncReply(1))
    /\ WF_vars(SyncTcpSend(1))

FairSpecConn == SpecConn /\ FairConn

\* the one peer connection of SpecConn, with a peer that also sends
\* malformed frames
NextMalformed ==
    \/ NextConn
    \/ RemoteSendsMalformed(1)

SpecMalformed == InitConn /\ [][NextMalformed]_vars

InitPeers ==
    /\ IdleOT
    /\ IdleTT
    /\ IdleWire
    /\ IdleEd
    /\ StartDaemons([d \in Daemons |-> IF d = "A" THEN "host" ELSE "off"],
                    [d \in Daemons |-> IF d = "A" THEN InitText(1) ELSE <<>>])
    /\ StartConns([c \in Conns |-> "A"], [c \in Conns |-> 0])

NextPeers ==
    \/ RemoteCloses(1)
    \/ RemoteSends(2)
    \/ ActorRecv("A")
    \/ ActorHandle("A")
    \/ ActorPing("A")
    \/ ActorFinish("A")
    \/ ActorWrite("A")
    \/ \E c \in Conns : ReaderRead(c)
    \/ \E c \in Conns : ReaderForward(c)
    \/ \E c \in Conns : WriterWrite(c)
    \/ \E c \in Conns : WriterStop(c)
    \/ \E c \in Conns : PumpSend(c)
    \/ \E c \in Conns : PumpStop(c)
    \/ \E c \in Conns : PumpWake(c)
    \/ \E c \in Conns : SyncStop(c)
    \/ \E c \in Conns : SyncRecv(c)
    \/ \E c \in Conns : SyncRequest(c)
    \/ \E c \in Conns : SyncReply(c)
    \/ \E c \in Conns : SyncTcpSend(c)

SpecPeers == InitPeers /\ [][NextPeers]_vars

\* the runtime runs every task of both connections that can make a step
FairPeers ==
    /\ WF_vars(ActorRecv("A"))
    /\ WF_vars(ActorHandle("A"))
    /\ WF_vars(ActorPing("A"))
    /\ WF_vars(ActorFinish("A"))
    /\ WF_vars(ActorWrite("A"))
    /\ \A c \in Conns :
           /\ WF_vars(ReaderRead(c))
           /\ WF_vars(ReaderForward(c))
           /\ WF_vars(WriterWrite(c))
           /\ WF_vars(WriterStop(c))
           /\ WF_vars(PumpSend(c))
           /\ WF_vars(PumpStop(c))
           /\ WF_vars(PumpWake(c))
           /\ WF_vars(SyncStop(c))
           /\ WF_vars(SyncRecv(c))
           /\ WF_vars(SyncRequest(c))
           /\ WF_vars(SyncReply(c))
           /\ WF_vars(SyncTcpSend(c))

FairSpecPeers == SpecPeers /\ FairPeers

----------------------------------------------------------------------------
(* The claims about the Document Actor. *)

\* the actor of d has handled the message in hand: handle_message returned
Handled(d) == actor[d].pc \in {"write", "recv"} /\ actor[d].message.kind # "none"

\* C11: the replica of a daemon changes only in a step of its Document
\* Actor's handler, for a message of a mutating kind that stays in hand;
\* and the actor takes a message from its channel only when the previous
\* one is handled to its end (file write included), so mutations are
\* totally ordered and no handler sees another one half done.
C11_SingleActorTotalOrder ==
    [][\A d \in Daemons :
           /\ crdt_doc'[d] # crdt_doc[d] =>
                  /\ actor[d].pc = "handle"
                  /\ actor[d].message.kind \in MutatingKinds
                  /\ actor'[d].message.kind = actor[d].message.kind
                  /\ actor'[d].committed
                  /\ doc_message_rx'[d] = doc_message_rx[d]
           /\ (doc_message_rx[d] # <<>> /\ doc_message_rx'[d] = Tail(doc_message_rx[d])) =>
                  /\ actor[d].pc = "recv"
                  /\ actor'[d].pc = "handle"
                  /\ actor'[d].message = Head(doc_message_rx[d])
                  /\ crdt_doc'[d] = crdt_doc[d]]_vars

\* C11 witness: a mutation is applied, its ping is not yet sent, and the
\* next message already waits in the channel.
C11_Witness ==
    /\ actor["A"].pc = "ping"
    /\ actor["A"].advanced
    /\ doc_message_rx["A"] # <<>>
    /\ doc_message_rx["A"][1].kind \in MutatingKinds

\* C12: when the actor has handled a Delta, RevDelta, RandomEdit or
\* ReceiveSyncMessage, it has sent exactly one change-ping for it; no
\* message gets two.
C12_OnePingPerMutation ==
    \A d \in Daemons :
        /\ actor[d].pings <= 1
        /\ (Handled(d) /\ actor[d].message.kind \in MutatingKinds) =>
               actor[d].pings = 1

\* C12 witness: a sync message that brought changes is handled.
C12_Witness ==
    /\ Handled("A")
    /\ actor["A"].message.kind = "ReceiveSyncMessage"
    /\ actor["A"].advanced
    /\ actor["A"].pings = 1

\* C13 (the claim as stated): a change-ping is sent only for a message that
\* advanced the replica; a ReceiveSyncMessage that brings nothing new, a
\* GetContent, GenerateSyncMessage, Open, Close or NewEditorConnection gets
\* no ping.
C13_PingOnlyWhenAdvanced ==
    \A d \in Daemons :
        Handled(d) =>
            /\ actor[d].pings > 0 => actor[d].advanced
            /\ actor[d].message.kind \notin MutatingKinds => actor[d].pings = 0

\* C14: whenever the actor waits for its next message, no reconciler exists
\* and the replica has its text object, the file holds the replica's
\* content; also right after a Close.
C14_DiskConsistency ==
    \A d \in Daemons :
        (/\ role[d] # "off"
         /\ actor[d].pc = "recv"
         /\ ~ot_server[d].some
         /\ text_obj(crdt_doc[d])) =>
            file[d] = current_content(crdt_doc[d]).val

\* C14 witness: a Close is handled after the daemon made changes of its own.
C14_Witness ==
    /\ actor["A"].pc = "recv"
    /\ actor["A"].message.kind = "Close"
    /\ next_change["A"] > 0
    /\ file["A"] = current_content(crdt_doc["A"]).val
    /\ file["A"] # InitText(Len(file["A"]))

\* C15: no step taken while a reconciler exists changes the file.
C15_NoWriteWhileEditorAttached ==
    [][\A d \in Daemons : ot_server[d].some => file'[d] = file[d]]_vars

\* C15 witness: with a reconciler, a mutating message is handled to its end
\* and the file is left behind the replica.
C15_Witness ==
    /\ actor["A"].pc = "recv"
    /\ actor["A"].advanced
    /\ ot_server["A"].some
    /\ file["A"] # current_content(crdt_doc["A"]).val

\* C19: a change-ping is sent only after the mutation of the message in
\* hand is applied to the replica, and is sent before the handler returns,
\* hence before the next message is received.
C19_PingAfterCommitBeforeNext ==
    \A d \in Daemons :
        /\ actor[d].pings > 0 => actor[d].committed
        /\ (actor[d].committed /\ actor[d].pc \in {"finish", "write", "recv"}) =>
               actor[d].pings > 0

\* C19 witness: the ping of a local edit is out, the handler has not
\* returned, and the next message waits.
C19_Witness ==
    /\ actor["A"].pc = "finish"
    /\ actor["A"].message.kind \in {"Delta", "RandomEdit"}
    /\ actor["A"].advanced
    /\ actor["A"].pings = 1
    /\ doc_message_rx["A"] # <<>>

----------------------------------------------------------------------------
(* The claims about two daemons that sync. *)

\* the requests of connection c among the messages of a mailbox
RECURSIVE RequestsOf(_, _)
RequestsOf(queue, c) ==
    IF queue = <<>> THEN 0
    ELSE (IF Head(queue).conn = c THEN 1 ELSE 0) + RequestsOf(Tail(queue), c)

\* the requests of connection c that the actor has not answered: those in
\* its mailbox, and the one it handles.  An actor that panicked has
\* dropped its mailbox and the requests in it.
Outstanding(c) ==
    LET d == conn_daemon[c]
    IN IF actor[d].pc = "panicked" THEN 0
       ELSE RequestsOf(doc_message_rx[d], c)
            + (IF /\ actor[d].pc \in {"handle", "ping", "finish"}
                  /\ actor[d].message.conn = c
               THEN 1 ELSE 0)

\* C16: for each peer connection at most one request carrying the sync
\* state is outstanding at the actor; while it is, or while its reply is
\* not yet received, the Sync task waits for the reply and holds no state
\* of its own, so it sends no other request.
C16_OneOutstandingRequest ==
    \A c \in Conns :
        conn_daemon[c] \in Daemons =>
            /\ Outstanding(c) + (IF response[c].sent THEN 1 ELSE 0) <= 1
            /\ (Outstanding(c) = 1 \/ response[c].sent) =>
                   /\ sync_actor[c].pc = "await"
                   /\ sync_actor[c].peer_state = SyncStateNew

\* the actor handles a ReceiveSyncMessage of a connection whose Sync task
\* has a GenerateSyncMessage waiting in its inbox
C16_Witness ==
    \E c \in Conns :
        /\ conn_daemon[c] \in Daemons
        /\ actor[conn_daemon[c]].pc = "ping"
        /\ actor[conn_daemon[c]].message.kind = "ReceiveSyncMessage"
        /\ actor[conn_daemon[c]].message.conn = c
        /\ syncer_message_rx[c] # <<>>
        /\ Head(syncer_message_rx[c]).kind = "GenerateSyncMessage"

\* nothing is pending at a daemon and nothing is in flight or queued on
\* its connections
Quiescent ==
    /\ \A d \in Daemons :
           \/ actor[d].pc = "panicked"
           \/ doc_message_rx[d] = <<>> /\ actor[d].pc = "recv"
    /\ \A c \in Conns :
           /\ syncer_message_rx[c] = <<>>
           /\ automerge_message_rx[c] = <<>>
           /\ tcp[c] = <<>>
           /\ sync_actor[c].pc \in {"idle", "stopped", "panicked"}
           /\ reader[c].pc # "forward"
           /\ pump[c] # "send"
           /\ doc_changed_ping_rx[c] \notin {"one", "lagged"}

\* C17: for two daemons joined by one lossless connection and any edits
\* sent to either side, once no edit is pending and no sync message is in
\* flight or queued, both replicas hold the same content.
C17_PeerConvergence ==
    Quiescent =>
        current_content(crdt_doc["A"]) = current_content(crdt_doc["B"])

\* the same while both Document Actors are alive
ConvergenceOfLiveActors ==
    (Quiescent /\ \A d \in Daemons : actor[d].pc # "panicked") =>
        current_content(crdt_doc["A"]) = current_content(crdt_doc["B"])

\* both actors alive, quiescent, and an edit went through
ConvergedAfterEdit ==
    /\ Quiescent
    /\ \A d \in Daemons : actor[d].pc # "panicked"
    /\ \E d \in Daemons : next_change[d] > 0


----------------------------------------------------------------------------
(* The claims about the tasks of a peer connection. *)

\* the stream of connection c is open and none of its tasks has ended
Live(c) ==
    /\ conn_daemon[c] \in Daemons
    /\ link[c] # -1
    /\ ~shutdown_token[c]
    /\ ~Ended(reader[c].pc)
    /\ ~Ended(sync_actor[c].pc)
    /\ ~Ended(pump[c])
    /\ ~Ended(writer[c])

\* the last GenerateSyncMessage round-trip of connection c was requested
\* before the latest change of the replica was committed
Behind(c) ==
    /\ conn_daemon[c] \in Daemons
    /\ sync_actor[c].round_trip < Cardinality(crdt_doc[conn_daemon[c]])

\* C18: after any mutation of the replica, every peer connection that
\* stays live eventually completes a GenerateSyncMessage round-trip whose
\* request was sent after the mutation was committed, also when the
\* change-ping channel overflowed and the pump saw Lagged.
C18_WakeUpNeverLost ==
    \A c \in Conns : Behind(c) ~> (~Behind(c) \/ ~Live(c))

\* the pump of a live connection lags behind the pings while the last
\* round-trip of its Sync task is older than the replica
C18_Witness ==
    \E c \in Conns :
        /\ Live(c)
        /\ doc_changed_ping_rx[c] = "lagged"
        /\ pump[c] = "wait"
        /\ sync_actor[c].round_trip < Cardinality(crdt_doc[conn_daemon[c]])
        /\ Cardinality(crdt_doc[conn_daemon[c]]) >= 3


\* the four tasks of connection c have ended
TornDown(c) ==
    /\ Ended(reader[c].pc)
    /\ Ended(sync_actor[c].pc)
    /\ Ended(pump[c])
    /\ Ended(writer[c])

\* C20: the end of the stream of one peer connection cancels the token of
\* that connection and of no other: the reader that met it has cancelled
\* its token, a connection whose stream is open keeps its token and all
\* four of its tasks, and the Document Actor does not die.
C20_TeardownStaysLocal ==
    /\ actor["A"].pc # "panicked"
    /\ \A c \in Conns :
           conn_daemon[c] \in Daemons =>
               /\ reader[c].pc = "stopped" => shutdown_token[c]
               /\ (link[c] # -1) => Live(c)

\* connection 1 is torn down, and the actor handles a sync message that
\* connection 2 received afterwards
C20_Witness ==
    /\ shutdown_token[1]
    /\ TornDown(1)
    /\ Live(2)
    /\ actor["A"].pc = "ping"
    /\ actor["A"].message.kind = "ReceiveSyncMessage"
    /\ actor["A"].message.conn = 2
    /\ actor["A"].advanced


----------------------------------------------------------------------------
(* The claims about malformed frames and the end of a connection. *)

\* a task of connection c met a malformed frame: the reader a negative
\* length prefix, the Sync task a payload that does not decode
MalformedFrameMet(c) ==
    \/ /\ reader[c].pc = "panicked"
       /\ reader[c].frame = NegativeLength
    \/ /\ sync_actor[c].pc = "panicked"
       /\ ~Decodes(sync_actor[c].message.message)

\* C21: a malformed peer frame (a negative length prefix, or a payload
\* that does not decode as a sync message) is handled like a read error:
\* once a task of the connection has met it, the token of that connection
\* is cancelled.
C21_MalformedFrameCancels ==
    \A c \in Conns : MalformedFrameMet(c) => shutdown_token[c]

\* the tasks of connection c that wait on the token or on a channel of the
\* Sync task have all ended
CascadeDone(c) ==
    /\ Ended(sync_actor[c].pc)
    /\ Ended(pump[c])
    /\ Ended(writer[c])

\* C22: once the reader of a connection met the end of the stream, the
\* token of that connection is cancelled and the Sync task, the pump and
\* the writer of that connection all eventually end.
C22_CancellationCascade ==
    \A c \in Conns :
        (reader[c].pc = "stopped") ~> (shutdown_token[c] /\ CascadeDone(c))

\* the reader cancelled the token, the Sync task and the pump returned
\* from their select!, and the writer found its queue closed
C22_Witness ==
    /\ reader[1].pc = "stopped"
    /\ shutdown_token[1]
    /\ sync_actor[1].pc = "stopped"
    /\ pump[1] = "stopped"
    /\ writer[1] = "stopped"

----------------------------------------------------------------------------
(* The claims about the start of a daemon, the reconciler and the editors. *)

\* the actor of d has not received a message yet
NothingHandled(d) == actor[d] = ActorNew

\* the changes of a replica that initialize the text
InitChanges(doc) == {c \in doc : c.op = "init"}

\* C24: the role of a daemon is host exactly when Daemon::new was given no
\* peer address.  The replica of a host holds exactly one initialization
\* of the text, made from the content of the file before the actor
\* receives its first message; a joiner starts with an empty replica, and
\* its replica gets its first content from a sync message it receives.
C24_HostInitializesTextOnce ==
    /\ [](\A d \in Daemons :
              /\ role[d] = "host" =>
                     /\ Cardinality(InitChanges(crdt_doc[d])) = 1
                     /\ NothingHandled(d) =>
                            current_content(crdt_doc[d]) = Ok(file[d])
              /\ role[d] = "joiner" =>
                     /\ Cardinality(InitChanges(crdt_doc[d])) <= 1
                     /\ NothingHandled(d) => crdt_doc[d] = {})
    /\ [][\A d \in Daemons :
              role[d] = "joiner" /\ crdt_doc[d] = {} /\ crdt_doc'[d] # {}
                  => /\ actor[d].pc = "handle"
                     /\ actor[d].message.kind = "ReceiveSyncMessage"]_vars

\* a joiner whose file holds a stale text got the text of its peer
C24_Witness ==
    /\ role["A"] = "joiner"
    /\ file["A"] = StaleText
    /\ actor["A"].pc = "ping"
    /\ actor["A"].message.kind = "ReceiveSyncMessage"
    /\ current_content(crdt_doc["A"]) = Ok(InitText(1))

\* C26: Open is idempotent: an Open handled while the daemon has a
\* reconciler leaves the reconciler (daemon_revision, editor_revision,
\* editor_queue) and the content of the replica as they were.
C26_OpenIsIdempotent ==
    [][\A d \in Daemons :
           /\ actor[d].pc = "handle"
           /\ actor[d].message.kind = "Open"
           /\ actor'[d].pc = "write"
           /\ ot_server[d].some
           => /\ ot_server'[d] = ot_server[d]
              /\ crdt_doc'[d] = crdt_doc[d]]_vars

\* the actor of d takes the step of ActorHandle, of ActorFinish
HandleStep(d, kind) ==
    /\ actor[d].pc = "handle"
    /\ actor[d].message.kind = kind
    /\ actor'[d].pc # "handle"
FinishStep(d, kind) ==
    /\ actor[d].pc = "finish"
    /\ actor[d].message.kind = kind
    /\ actor'[d].pc = "write"

\* the characters of the text of d after the edit delta is made on it
EditResult(d, delta) ==
    (LiveChars(crdt_doc[d]) \ DeletedBy(<<delta>>))
    \cup {NewId(d, next_change[d] + j - 1) :
              j \in {x \in 1..Len(delta) : delta[x].op = "ins"}}

\* a reconciler that has absorbed one edit of the editor and nothing else
AfterFirstEdit == [OTServerNew EXCEPT !.editor_revision = 1]

\* the edit with revision 0 that a new reconciler gets makes the content
\* of the replica the result of the edit
FirstEditApplied(d) ==
    /\ HandleStep(d, "RevDelta")
    /\ actor[d].message.delta.revision = 0
    /\ ot_server[d] = OTServerNew
    => /\ actor'[d].pc = "ping"
       /\ ot_server'[d] = AfterFirstEdit
       /\ current_content(crdt_doc'[d]) =
              Ok(SortedSeq(EditResult(d, actor[d].message.delta.delta)))

\* the rest of the handler of that edit runs, with an editor registered
FirstEditFinishes(d) ==
    /\ FinishStep(d, "RevDelta")
    /\ actor[d].message.delta.revision = 0
    /\ ot_server[d] = AfterFirstEdit
    /\ editor_clients[d] # {}

RebasedQueue(d) == ot_server[d].editor_queue
Unacknowledged(d) ==
    ot_server[d].daemon_revision - actor[d].message.delta.revision

DaemonChangeKinds == {"Delta", "RandomEdit", "ReceiveSyncMessage"}

\* C29: a change the daemon originates (a peer Delta, a RandomEdit, the
\* patches of a ReceiveSyncMessage) mutates the replica whether or not
\* there is a reconciler; it is recorded in the reconciler and sent to the
\* registered editors exactly if there is a reconciler when it is
\* handled.  Without one (before the first Open, after a Close) nothing is
\* sent to an editor handle and the actor holds no OT state.
C29_EditorsHearOnlyThroughReconciler ==
    [][\A d \in Daemons :
           /\ ~ot_server'[d].some => ot_server'[d] = NoOTServer
           /\ HandleStep(d, "ReceiveSyncMessage") =>
                  /\ crdt_doc'[d] = crdt_doc[d] \cup actor[d].message.message.changes
                  /\ ot_server[d].some =>
                         actor'[d].deltas = PatchDeltas(crdt_doc[d], crdt_doc'[d])
           /\ HandleStep(d, "Delta") /\ actor'[d].pc = "ping" =>
                  /\ crdt_doc'[d] =
                         DocumentApplyDelta(crdt_doc[d], actor[d].message.delta,
                                            d, next_change[d])
                  /\ actor'[d].deltas = <<actor[d].message.delta>>
           /\ HandleStep(d, "RandomEdit") /\ actor'[d].pc = "ping" =>
                  /\ crdt_doc'[d] # crdt_doc[d]
                  /\ Len(actor'[d].deltas) = 1
           /\ \A kind \in DaemonChangeKinds :
                  FinishStep(d, kind) =>
                      LET changes == actor[d].deltas
                          n == Len(changes)
                      IN /\ actor[d].committed
                         /\ crdt_doc'[d] = crdt_doc[d]
                         /\ IF ot_server[d].some
                            THEN /\ ot_server'[d] =
                                        [ot_server[d] EXCEPT
                                             !.daemon_revision = @ + n,
                                             !.editor_queue = @ \o changes]
                                 /\ editor_clients[d] # {} =>
                                        /\ Len(actor'[d].sent) = n
                                        /\ \A i \in 1..n :
                                               actor'[d].sent[i] =
                                                   RevisionedDelta(
                                                       ot_server[d].editor_revision,
                                                       changes[i])
                            ELSE /\ ot_server'[d] = NoOTServer
                                 /\ actor'[d].sent = <<>>]_vars

\* a sync message brought an insertion while there was a reconciler: the
\* insertion is queued and sent to the registered editor
C29_Witness ==
    /\ actor["A"].pc = "write"
    /\ actor["A"].message.kind = "ReceiveSyncMessage"
    /\ actor["A"].advanced
    /\ editor_clients["A"] = {0}
    /\ ot_server["A"].some
    /\ ot_server["A"].daemon_revision = 1
    /\ ot_server["A"].editor_queue = <<(<<DeltaOp("ins", 0)>>)>>
    /\ actor["A"].sent = <<RevisionedDelta(0, <<DeltaOp("ins", 0)>>)>>

\* C30: every message sent through the DocumentActorHandle is eventually
\* handled, whatever the role of the daemon and whatever was sent before:
\* a message that waits in the inbox is eventually received, and
\* handle_message eventually returns for a message that is received.
C30_EveryMessageIsHandled ==
    \A d \in Daemons :
        /\ (doc_message_rx[d] # <<>>) ~> (actor[d].pc = "handle")
        /\ (actor[d].pc = "handle") ~> (actor[d].pc = "write")

----------------------------------------------------------------------------
(* The framing of peer.rs on bytes: TCPWriteActor::run writes the length   *)
(* of a payload and then the payload, TCPReadActor::read_message reads     *)
(* them back.  SpecFraming gives a writer a queue of payloads and lets a   *)
(* reader read the stream while the writer writes.                         *)

\* the payloads of one queue, the bytes of one payload
MaxPayloads == 2
MaxPayloadLen == 2

\* the values of the bytes of a payload
PayloadBytes == {0, 255}

Payloads == UNION {[1..n -> PayloadBytes] : n \in 0..MaxPayloadLen}
PayloadQueues == UNION {[1..n -> Payloads] : n \in 0..MaxPayloads}

\* message.len() as i32 (peer.rs:95): the low 32 bits, as a signed number
as_i32(n) == IF n <= 2147483647 THEN n ELSE (n - 2147483647) - 2147483647 - 2

\* a writer that would write the length with to_le_bytes
to_le_bytes(v) ==
    LET u == IF v >= 0 THEN v ELSE (v + 2147483647) + 1
        top == (u \div 16777216) + (IF v >= 0 THEN 0 ELSE 128)
    IN <<u % 256, (u \div 256) % 256, (u \div 65536) % 256, top>>

\* i32::to_be_bytes (peer.rs:97): two's complement, the high byte first
to_be_bytes(v) ==
    LET u == IF v >= 0 THEN v ELSE (v + 2147483647) + 1
        top == (u \div 16777216) + (IF v >= 0 THEN 0 ELSE 128)
    IN <<top, (u \div 65536) % 256, (u \div 256) % 256, u % 256>>

\* i32::from_be_bytes (peer.rs:60)
from_be_bytes(b) ==
    (IF b[1] >= 128 THEN b[1] - 256 ELSE b[1]) * 16777216
    + b[2] * 65536 + b[3] * 256 + b[4]

\* TCPReadActor::read_message on the bytes that have arrived
\* (peer.rs:57-64): read_exact waits for the bytes it lacks; a negative
\* length asks vec! for more than isize::MAX bytes, which panics
read_message(stream) ==
    IF Len(stream) < 4
    THEN [status |-> "wait", payload |-> <<>>, rest |-> stream]
    ELSE LET message_len == from_be_bytes(SubSeq(stream, 1, 4))
         IN IF message_len < 0
            THEN [status |-> "panic", payload |-> <<>>, rest |-> stream]
            ELSE IF Len(stream) - 4 < message_len
            THEN [status |-> "wait", payload |-> <<>>, rest |-> stream]
            ELSE [status |-> "ok",
                  payload |-> SubSeq(stream, 5, 4 + message_len),
                  rest |-> SubSeq(stream, 5 + message_len, Len(stream))]

\* TCPWriteActor::run: write_all of the length (peer.rs:95-99)
WriterWritesLen ==
    /\ wire_writer = "len"
    /\ wire_queue # <<>>
    /\ wire_stream' = wire_stream \o to_be_bytes(as_i32(Len(Head(wire_queue))))
    /\ wire_writer' = "payload"
    /\ UNCHANGED <<wire_payloads, wire_queue, wire_read>>
    /\ UNCHANGED <<otVars, ttVars, edVars, actorVars, peerVars, connVars>>

\* TCPWriteActor::run: write_all of the payload (peer.rs:100-103)
WriterWritesPayload ==
    /\ wire_writer = "payload"
    /\ wire_stream' = wire_stream \o Head(wire_queue)
    /\ wire_queue' = Tail(wire_queue)
    /\ wire_writer' = "len"
    /\ UNCHANGED <<wire_payloads, wire_read>>
    /\ UNCHANGED <<otVars, ttVars, edVars, actorVars, peerVars, connVars>>

\* TCPReadActor::run: read_message returns a payload, or panics
\* (peer.rs:67)
ReaderReadsMessage ==
    /\ wire_read.status = "run"
    /\ \E r \in {read_message(wire_stream)} :
           /\ r.status # "wait"
           /\ wire_stream' = r.rest
           /\ wire_read' =
                  IF r.status = "ok"
                  THEN [wire_read EXCEPT !.payloads = Append(@, r.payload)]
                  ELSE [wire_read EXCEPT !.status = "panicked"]
    /\ UNCHANGED <<wire_payloads, wire_queue, wire_writer>>
    /\ UNCHANGED <<otVars, ttVars, edVars, actorVars, peerVars, connVars>>

InitFraming ==
    /\ IdleOT
    /\ IdleTT
    /\ IdleEd
    /\ IdleDaemons
    /\ wire_payloads \in PayloadQueues
    /\ wire_queue = wire_payloads
    /\ wire_writer = "len"
    /\ wire_stream = <<>>
    /\ wire_read = [status |-> "run", payloads |-> <<>>]

NextFraming ==
    \/ WriterWritesLen
    \/ WriterWritesPayload
    \/ ReaderReadsMessage

SpecFraming == InitFraming /\ [][NextFraming]_vars

\* a length below 2^31 as four bytes, the most significant first
BigEndian(n) ==
    <<n \div 16777216, (n \div 65536) % 256, (n \div 256) % 256, n % 256>>

\* the frames of a sequence of payloads, one after the other
RECURSIVE FramesOf(_)
FramesOf(arg1) ==
    CHOOSE r \in
        { IF payloads = <<>> THEN <<>>
          ELSE BigEndian(Len(Head(payloads))) \o Head(payloads)
               \o FramesOf(Tail(payloads))
          : payloads \in {arg1} } : TRUE

\* the payloads the writer has written in full
WrittenPayloads ==
    SubSeq(wire_payloads, 1, Len(wire_payloads) - Len(wire_queue))

\* C23: the writer emits every payload of its queue as a 4-byte
\* big-endian length followed by exactly the bytes of the payload, in the
\* order of the queue; the reader never fails on that stream and returns
\* the same payloads in the same order, one per frame, empty payloads
\* included: the frames of what it has returned and what the stream still
\* holds are together what was written, and once the writer is done and the reader
\* finds no further frame the reader has returned every payload.
C23_FramingRoundTrip ==
    /\ wire_read.status \in {"off", "run"}
    /\ Len(wire_read.payloads) <= Len(wire_payloads)
    /\ wire_read.payloads = SubSeq(wire_payloads, 1, Len(wire_read.payloads))
    /\ FramesOf(wire_read.payloads) \o wire_stream =
           FramesOf(WrittenPayloads)
           \o (IF wire_writer = "payload"
               THEN BigEndian(Len(Head(wire_queue))) ELSE <<>>)
    /\ wire_queue = <<>> /\ read_message(wire_stream).status = "wait"
           => /\ wire_read.payloads = wire_payloads
              /\ wire_stream = <<>>

\* an empty payload and a payload of two bytes went through the stream
C23_Witness ==
    /\ wire_payloads = << <<>>, <<255, 0>> >>
    /\ wire_queue = <<>>
    /\ wire_stream = <<>>
    /\ wire_read.payloads = wire_payloads

----------------------------------------------------------------------------
(* Document::apply_delta_to_doc on the characters of a text.  An editor   *)
(* delta is a sequence of range replacements whose positions are lines    *)
(* and columns; SpecDelta applies one delta to one text.                  *)

\* the characters of a text, the ops of a delta
MaxTextLen == 3
MaxOps == 2

TextChars == {"a", "\n"}
EditorTexts == UNION {[1..n -> TextChars] : n \in 0..MaxTextLen}
Replacements == {<<>>, <<"x", "\n">>}

Position(line, column) == [line |-> line, column |-> column]
Range(anchor, head) == [anchor |-> anchor, head |-> head]
replace_ed(anchor, head, replacement) ==
    [range |-> Range(Position(anchor[1], anchor[2]),
                     Position(head[1], head[2])),
     replacement |-> replacement]

NumNewlines(text) == Cardinality({i \in 1..Len(text) : text[i] = "\n"})

\* the number of characters before the first character of a line
LineStart(text, line) ==
    IF line = 0 THEN 0
    ELSE CHOOSE i \in 1..Len(text) :
            /\ text[i] = "\n"
            /\ Cardinality({j \in 1..i : text[j] = "\n"}) = line

\* the characters of a line, its newline left out
LineLen(text, line) ==
    (IF line = NumNewlines(text) THEN Len(text)
     ELSE LineStart(text, line + 1) - 1) - LineStart(text, line)

\* the positions of a text
Positions(text) ==
    {p \in [line : 0..NumNewlines(text), column : 0..Len(text)] :
        p.column <= LineLen(text, p.line)}

\* Position to a number of characters from the start of the text
PositionOffset(position, text) ==
    LineStart(text, position.line) + position.column

\* Range::as_relative: the start and the length of a range in characters
as_relative(range, text) ==
    LET a == PositionOffset(range.anchor, text)
        h == PositionOffset(range.head, text)
    IN IF a <= h THEN <<a, h - a>> ELSE <<h, a - h>>

\* Range::forward (ot.rs:36-39)
forward(range) ==
    \/ range.anchor.line < range.head.line
    \/ range.anchor.line = range.head.line
       /\ range.anchor.column <= range.head.column

\* the forward range replacements on a text
EditorOps(text) ==
    {op \in [range : [anchor : Positions(text), head : Positions(text)],
             replacement : Replacements] : forward(op.range)}

\* the deltas of n ops whose ranges are ascending and do not overlap
RECURSIVE AscendingDeltas(_, _)
AscendingDeltas(arg1, arg2) ==
    CHOOSE r \in
        { IF n = 0 THEN {<<>>}
          ELSE UNION {
                 {Append(delta, op) :
                     op \in {o \in EditorOps(text) :
                                \/ delta = <<>>
                                \/ PositionOffset(delta[Len(delta)].range.head,
                                                  text)
                                      <= PositionOffset(o.range.anchor, text)}}
                 : delta \in AscendingDeltas(text, n - 1)}
          : text \in {arg1}, n \in {arg2} } : TRUE

EditorDeltas(text) == UNION {AscendingDeltas(text, n) : n \in 1..MaxOps}

\* the text and the delta of tests::document::can_apply_delta_multiple_ops_bug
BugText ==
    <<"x", "e", "i", "n", "s", "\n", "z", "w", "e", "i", "\n",
      "d", "r", "e", "i", "\n">>
BugDelta ==
    <<replace_ed(<<1, 0>>, <<1, 0>>, <<"x", "z", "w", "e", "i", "\n", "x">>),
      replace_ed(<<1, 0>>, <<2, 0>>, <<>>)>>
BugExpected ==
    <<"x", "e", "i", "n", "s", "\n", "x", "z", "w", "e", "i", "\n",
      "x", "d", "r", "e", "i", "\n">>

\* automerge splice_text on the characters of the text object: del
\* characters from pos on give way to the characters of text
splice_text(content, pos, del, text) ==
    IF pos < 0 \/ pos + del > Len(content)
    THEN Err("Failed to splice Automerge text object")
    ELSE Ok(SubSeq(content, 1, pos) \o text
            \o SubSeq(content, pos + del + 1, Len(content)))

\* a loop that resolves every range against the text it has reached
RECURSIVE SpliceTextLoopAfresh(_, _, _, _)
SpliceTextLoopAfresh(arg1, arg2, arg3, arg4) ==
    CHOOSE r \in
        { IF ops = <<>> \/ ~content.ok THEN content
          ELSE LET range == as_relative(Head(ops).range, text)
               IN SpliceTextLoopAfresh(
                      splice_text(content.val, range[1], range[2],
                                  Head(ops).replacement),
                      Tail(ops), 0, text)
          : content \in {arg1}, ops \in {arg2}, offset \in {arg3},
            text \in {arg4} } : TRUE

\* a Document::apply_delta_to_doc without the running offset
apply_delta_to_doc_afresh(text, delta) ==
    SpliceTextLoopAfresh(Ok(text), delta, 0, text)

\* the loop of Document::apply_delta_to_doc (daemon.rs:129-141): the range
\* is resolved against text, the content before the delta, and spliced in
\* at start + offset
RECURSIVE SpliceTextLoop(_, _, _, _)
SpliceTextLoop(arg1, arg2, arg3, arg4) ==
    CHOOSE r \in
        { IF ops = <<>> \/ ~content.ok THEN content
          ELSE LET range == as_relative(Head(ops).range, text)
               IN SpliceTextLoop(
                      splice_text(content.val, range[1] + offset, range[2],
                                  Head(ops).replacement),
                      Tail(ops),
                      (offset - range[2]) + Len(Head(ops).replacement),
                      text)
          : content \in {arg1}, ops \in {arg2}, offset \in {arg3},
            text \in {arg4} } : TRUE

\* Document::apply_delta_to_doc (daemon.rs:121-142) on the content text
apply_delta_to_doc(text, delta) == SpliceTextLoop(Ok(text), delta, 0, text)

\* tests::document::apply_delta_to_doc_works: initialize_text,
\* apply_delta_to_doc, current_content
ApplyDeltaToDoc ==
    /\ ~ed_result.called
    /\ \E r \in {apply_delta_to_doc(ed_text, ed_delta)} :
           ed_result' = [called |-> TRUE, content |-> r]
    /\ UNCHANGED <<ed_text, ed_delta>>
    /\ UNCHANGED <<otVars, ttVars, wireVars, actorVars, peerVars, connVars>>

InitDelta ==
    /\ IdleOT
    /\ IdleTT
    /\ IdleWire
    /\ IdleDaemons
    /\ \E text \in EditorTexts \cup {BugText} :
           /\ ed_text = text
           /\ ed_delta \in IF text = BugText THEN {BugDelta}
                            ELSE EditorDeltas(text)
    /\ ed_result = [called |-> FALSE]

NextDelta == ApplyDeltaToDoc

SpecDelta == InitDelta /\ [][NextDelta]_vars

\* the text with the ranges of all ops replaced at once: what lies between
\* the ranges is kept, every range gives way to its replacement
RECURSIVE ReplacedAtOnce(_, _, _)
ReplacedAtOnce(arg1, arg2, arg3) ==
    CHOOSE r \in
        { IF ops = <<>> THEN SubSeq(text, from + 1, Len(text))
          ELSE LET a == PositionOffset(Head(ops).range.anchor, text)
                   h == PositionOffset(Head(ops).range.head, text)
               IN SubSeq(text, from + 1, a) \o Head(ops).replacement
                  \o ReplacedAtOnce(text, Tail(ops), h)
          : text \in {arg1}, ops \in {arg2}, from \in {arg3} } : TRUE

\* C25: applying an editor delta of several range replacements gives the
\* text that replacing all its ranges at once gives, for every text and
\* every delta whose ranges are ascending and do not overlap, ranges that
\* span lines included: every range is resolved against the content before
\* the delta and shifted by the characters the earlier ops of the delta
\* inserted less the characters they deleted, and no splice fails.
C25_DeltaReplacesAllRangesAtOnce ==
    ed_result.called =>
        /\ ed_result.content.ok
        /\ ed_result.content.val = ReplacedAtOnce(ed_text, ed_delta, 0)

\* the delta of can_apply_delta_multiple_ops_bug has been applied: an
\* insertion of two lines and the deletion of the line after it
C25_Witness ==
    /\ ed_result.called
    /\ ed_text = BugText
    /\ Len(ed_delta) = 2
    /\ ed_delta[2].range.anchor.line < ed_delta[2].range.head.line
    /\ ed_result.content = Ok(BugExpected)

----------------------------------------------------------------------------
(* Claims about the assertions of the OTServer of ot.rs. *)

SingleRangePanic == "TODO: support operations that have more than one range"
NotEnoughCachedPanic == "Whoopsie, we don't have enough operations cached."

\* C34 (the claim as stated): in every reachable state every op stored in
\* editor_queue has exactly one range element, and the single-range
\* assertion of transform_through_operations never fails, whatever
\* single-range ops apply_crdt_change and apply_editor_operation are called
\* with, a second stale editor op included.
C34_QueueOpsAreSingleRange ==
    /\ \A i \in 1..Len(editor_queue) : OpLen(editor_queue[i]) = 1
    /\ panicked # SingleRangePanic

\* C35: as long as the daemon revisions the editor reports in successive
\* apply_editor_operation calls never go back and never exceed
\* daemon_revision, editor_queue holds at least the daemon ops the editor
\* has not reported, so at the start of every such call
\* daemon_revision - editor_daemon_rev <= editor_queue.len() and the
\* assertion about the cached operations does not fail.
C35_EnoughOperationsCached ==
    reported.honest =>
        /\ panicked # NotEnoughCachedPanic
        /\ IsEditorCall => LastK <= Len(last.pre.editor_queue)
        /\ panicked = NoPanic =>
               daemon_revision - reported.seen <= Len(editor_queue)

\* C35 witness: after an editor op that was transformed through two daemon
\* ops, a second editor op that reports the same revision finds exactly the
\* two ops it needs in the rebased queue.
C35_Witness ==
    /\ reported.honest
    /\ IsEditorCall
    /\ panicked = NoPanic
    /\ last.branch = "older"
    /\ last.pre.editor_revision = 1
    /\ LastK = 2
    /\ Len(last.pre.editor_queue) = 2
    /\ last.pre.daemon_revision = 2

\* C36: an editor op whose daemon revision is greater than daemon_revision
\* leaves the OTServer as it was: daemon_revision, editor_revision,
\* editor_queue, the operations log and the tracked document are the same
\* before and after the call.
C36_FutureRevisionChangesNothing ==
    (IsEditorCall /\ last.rev > last.pre.daemon_revision) =>
        /\ Fields = last.pre
        /\ panicked = NoPanic

\* C36 witness: an op from the future was sent to an OTServer that had
\* recorded a daemon op and an editor op.
C36_Witness ==
    /\ IsEditorCall
    /\ last.branch = "future"
    /\ last.rev = daemon_revision + 1
    /\ editor_queue # <<>>
    /\ editor_revision = 1
    /\ Len(operations) = 2

----------------------------------------------------------------------------
(* Claims about the Document Actor and the tasks of a connection. *)

NoEditorPanic == "No editor connected, where does this delta come from?"

\* C37 (the claim as stated): a RevDelta that reaches the actor while it
\* has no reconciler, before any Open or after a Close, does not stop the
\* actor: the message is rejected or ignored, and later messages are still
\* handled.
C37_RevDeltaWithoutReconcilerIsSurvived ==
    \A d \in Daemons :
        actor[d].pc = "panicked" => actor[d].panic # NoEditorPanic

\* C39: whenever the actor sends the reply of a ReceiveSyncMessage or a
\* GenerateSyncMessage request, the receiver of the reply is alive: from
\* the moment the request is queued until its reply is taken the Sync
\* task of the connection waits for the reply, in every interleaving, the
\* cancellation of the connection while the request is queued or being
\* handled included; so the end of a connection never makes the reply fail.
C39_ReplyReceiverIsAlive ==
    \A c \in Conns :
        (conn_daemon[c] \in Daemons
         /\ (Outstanding(c) >= 1 \/ response[c].sent)) =>
            sync_actor[c].pc = "await"

\* the reply of a request was sent after the connection was cancelled
C39_Witness ==
    /\ shutdown_token[1]
    /\ reader[1].pc = "stopped"
    /\ response[1].sent
    /\ actor["A"].message.conn = 1
    /\ actor["A"].message.kind = "ReceiveSyncMessage"

\* C38 (the claim as stated): when a connection is cancelled while the
\* pump or the reader is about to enqueue into the inbox of the Sync task,
\* no send is attempted on an inbox whose receiver the Sync task dropped
\* when it left, and no task panics because of one: in every interleaving
\* of cancellation, ping and the exit of the Sync task the pump and the
\* reader stop cleanly.
C38_NoSendAfterSyncExit ==
    \A c \in Conns :
        sync_actor[c].pc = "stopped" =>
            /\ pump[c] # "panicked"
            /\ reader[c].pc # "panicked"

\* the tasks of connection c run: none has stopped or panicked
ConnectionRuns(c) ==
    /\ ~Ended(reader[c].pc)
    /\ ~Ended(sync_actor[c].pc)
    /\ ~Ended(pump[c])
    /\ ~Ended(writer[c])

GenerateEnqueued(c) ==
    syncer_message_rx'[c] =
        Append(syncer_message_rx[c],
               SyncerMessage("GenerateSyncMessage", NoSyncMessage))

\* what the pump of connection c does in a step
PumpDiscipline(c) ==
    /\ GenerateEnqueued(c) => pump[c] = "send" /\ pump'[c] = "wait"
    /\ (pump[c] = "send" /\ pump'[c] # "send") =>
           GenerateEnqueued(c) \/ pump'[c] = "panicked"
    /\ (pump[c] # "send" /\ pump'[c] = "send") =>
           /\ pump[c] = "wait"
           /\ doc_changed_ping_rx[c] \in {"one", "lagged"}
           /\ doc_changed_ping_rx'[c] # doc_changed_ping_rx[c]

\* C32: when a peer connection starts, its pump enqueues one
\* GenerateSyncMessage into the inbox of the Sync task before it waits for
\* any change-ping, so that a sync message is generated for the new peer
\* (unless the connection ends first) even if the document never changes;
\* after that it enqueues one GenerateSyncMessage per wake-up, by a ping or
\* by Lagged, and none otherwise.
C32_PumpStartsWithGenerate ==
    /\ pump[1] = "send" /\ syncer_message_rx[1] = <<>>
    /\ [][\A c \in Conns : PumpDiscipline(c)]_vars
    /\ <>(sync_actor[1].round_trip >= 0 \/ Ended(sync_actor[1].pc))

\* the first sync message for the peer was generated and written to the
\* stream while the replica is as it was when the connection started
C32_Witness ==
    /\ sync_actor[1].round_trip >= 0
    /\ next_change["A"] = 0
    /\ remote_sent[1] = 0
    /\ writer[1] = "run"
    /\ automerge_message_rx[1] = <<>>
    /\ sync_actor[1].pc = "idle"
    /\ pump[1] = "wait"

SyncRequestKinds == {"ReceiveSyncMessage", "GenerateSyncMessage"}

\* the sync state the request in the hands of the actor of d carried,
\* advanced by the request
AdvancedState(d) ==
    LET m == actor[d].message
    IN IF m.kind = "GenerateSyncMessage"
       THEN generate_sync_message(crdt_doc[d], m.state).state
       ELSE receive_sync_message(crdt_doc[d], m.state, m.message).state

\* what a step does with the sync state of connection c
StateBorrow(c) ==
    LET d == conn_daemon[c]
        m == actor[d].message
        mine == m.kind \in SyncRequestKinds /\ m.conn = c
    IN /\ \* the actor takes the state of the request and advances it
          (mine /\ actor[d].pc = "handle" /\ actor'[d].pc # "handle") =>
              \/ actor'[d].pc = "panicked"
              \/ IF m.kind = "GenerateSyncMessage"
                 THEN response'[c].sent
                      /\ response'[c].state = AdvancedState(d)
                 ELSE actor'[d].message.state = AdvancedState(d)
       /\ \* a reply is sent once, by the handler of the request, and
          \* carries the advanced state
          (response'[c].sent /\ ~response[c].sent) =>
              /\ mine
              /\ actor[d].pc \in {"handle", "finish"}
              /\ m.kind = "ReceiveSyncMessage" =>
                     response'[c].state = m.state
              /\ response'[c].state # SyncStateNew
       /\ \* the handler of a request does not return without the reply
          (mine /\ actor[d].pc \in {"handle", "ping", "finish"}
                /\ actor'[d].pc = "write") =>
              response'[c].sent
       /\ \* the Sync task leaves its wait with the returned state
          (sync_actor[c].pc = "await" /\ sync_actor'[c].pc # "await") =>
              \/ sync_actor'[c].pc = "panicked"
              \/ /\ response[c].sent
                 /\ sync_actor'[c].peer_state = response[c].state
                 /\ ~response'[c].sent
       /\ \* and keeps it until it moves it into its next request
          (sync_actor[c].pc # "await" /\ sync_actor'[c].pc # "await") =>
              sync_actor'[c].peer_state = sync_actor[c].peer_state
       /\ (sync_actor[c].pc # "await" /\ sync_actor'[c].pc = "await") =>
              /\ sync_actor'[c].peer_state = SyncStateNew
              /\ Len(doc_message_rx'[d]) = Len(doc_message_rx[d]) + 1
              /\ doc_message_rx'[d][Len(doc_message_rx'[d])].state
                     = sync_actor[c].peer_state

\* C31: the sync state of a peer is moved into each ReceiveSyncMessage and
\* GenerateSyncMessage request and moved back: the actor sends exactly one
\* reply per request, carrying the state it received, advanced by that
\* request; the Sync task stores the returned state before it handles its
\* next stimulus, and between requests it holds that state and never the
\* placeholder the move left behind.
C31_SyncStateIsBorrowed ==
    [][\A c \in Conns : conn_daemon[c] \in Daemons => StateBorrow(c)]_vars

\* the Sync task holds the state that a ReceiveSyncMessage request and
\* then a GenerateSyncMessage request returned
C31_Witness ==
    /\ sync_actor[1].pc = "idle"
    /\ sync_actor[1].round_trip >= 0
    /\ sync_actor[1].peer_state.their_known
    /\ sync_actor[1].peer_state.have_responded

\* C40: a joiner never writes its file while its replica has no text
\* object: every step that leaves the replica without text object, the
\* write after each message handled before the first sync message that
\* installs the text included, leaves the file on disk as it was (it is
\* not truncated to empty).
C40_JoinerFileIsKept ==
    [][\A d \in Daemons :
           (role[d] = "joiner" /\ ~text_obj(crdt_doc'[d])) =>
               file'[d] = file[d]]_vars

\* a joiner whose file holds a text has handled two messages, the second a
\* sync request, and still has no text object
C40_Witness ==
    /\ role["A"] = "joiner"
    /\ ~text_obj(crdt_doc["A"])
    /\ file["A"] # <<>>
    /\ injected["A"] >= 2
    /\ actor["A"].pc = "recv"
    /\ actor["A"].message.kind = "GenerateSyncMessage"

============================================================================
